---- MODULE Spec2Model ----
(***************************************************************************)
(* Order Blitz: the incremental order synchronisation of the Store Planner *)
(* Pro backend (POST /api/order-blitz), its status record, the orders and  *)
(* order_items tables it writes, the loyalty update and the fire-and-forget*)
(* correlation rebuild it schedules.                                       *)
(*                                                                         *)
(* A handler is modelled await by await: Node runs the code between two    *)
(* awaits without interruption, so one action is the resolution of one     *)
(* await followed by the synchronous code up to the next await.            *)
(* Timestamps are minutes relative to 2023-01-01T00:00:00Z.                *)
(* An SQL NULL / JS null is the empty tuple, a present value v is <<v>>.   *)
(***************************************************************************)
EXTENDS Integers, Sequences, FiniteSets, TLC

----------------------------------------------------------------------------
(* Bounds of the model *)

\* orders the upstream shop can hold (ids 1..NumOrders, placed in id order)
NumOrders == 3
\* orders per upstream page; stands for limit=250 of the request URL
PageLimit == 2
\* sync runs that pass the concurrency guard
MaxRuns == 2
\* store / upstream failures injected over a behaviour
MaxFaults == 1
\* times the shop edits an order after it was placed
MaxRev == 1

\* correlation rebuilds requested through POST /api/correlations/calculate
MaxRebuilds == 2

\* variants in table products
NumVariants == 3
\* variant ids per inventory batch; stands for batchSize = 50
batchSize == 2
\* inventory sync runs started over a behaviour
MaxSyncs == 2
\* upstream answers other than a success over a behaviour
MaxRejects == 4

\* savePlanogram calls for one planogram id over a behaviour
MaxSaves == 3
\* sections of a planogram
MaxSections == 2

\* concurrent HTTP requests to POST /api/order-blitz
Reqs == {1, 2}
\* the orders the shop edits after they were placed
EditableOrders == {1}
\* calculateCorrelations() invocations that can be in flight
CorrSlots == 1 .. MaxRuns
\* updateInventoryLevels() invocations that can be in flight
InvSlots == 1 .. MaxSyncs
\* who calls updateInventoryLevels(): the timer 30 s after start, the hourly
\* and the 5-minute interval, POST /api/sync-inventory and
\* /api/sync-inventory-quick, the action refreshInventory, the product import
Triggers == {"startup", "hourly", "fiveMinutes", "syncInventory",
             "syncInventoryQuick", "refreshInventory", "importProducts"}

----------------------------------------------------------------------------
(* Program constants *)

\* '2023-01-01T00:00:00Z', the origin of the model's time axis
SinceFloor == 0
\* bufferDate.setMinutes(bufferDate.getMinutes() - 5)
OverlapMinutes == 5
BATCH_SIZE == 50
\* processBatch: const maxRetries = 3, const baseDelay = 2000 (ms)
maxRetries == 3
baseDelay == 2000

Null == <<>>
Some(v) == <<v>>
IsNull(x) == x = <<>>

\* UNIQUE(order_id, variant_id, cart_position) of table order_items
OrderItemsUnique == {{"order_id", "variant_id", "cart_position"}}
\* ON CONFLICT (order_id, variant_id) of the line item insert
OrderItemsConflictTarget == {"order_id", "variant_id"}
\* UNIQUE(variant_a_id, variant_b_id) of table product_correlations
CorrelationsUnique == {{"variant_a_id", "variant_b_id"}}
\* ON CONFLICT (variant_a_id, variant_b_id) of the correlation insert
CorrelationsConflictTarget == {"variant_a_id", "variant_b_id"}
\* PRIMARY KEY (order_id) of table orders
OrdersUnique == {{"order_id"}}
\* ON CONFLICT (order_id) of the order insert
OrdersConflictTarget == {"order_id"}

----------------------------------------------------------------------------
(* The upstream shop: what GET orders.json answers *)

Item(variant, sku, qty, price) ==
    [variant_id |-> variant, sku |-> sku, quantity |-> qty, price |-> price]

\* The orders the shop can hold.  created_at grows with the id; order 2 is a
\* guest checkout, orders 1 and 3 belong to one customer; order 2 carries the
\* same variant at two cart positions, order 3 a custom sale item and an item
\* of a variant that has no sku, with a negative quantity and price.
Catalog ==
    << [customer |-> Some(1), created_at |-> 2,
        line_items |-> << Item(Some(7), Some("S"), Some(1), Some(5)),
                          Item(Some(8), Some("S"), Some(2), Some(3)) >>],
       [customer |-> Null, created_at |-> 4,
        line_items |-> << Item(Some(7), Some("S"), Some(1), Some(5)),
                          Item(Some(7), Some("S"), Some(3), Some(5)) >>],
       [customer |-> Some(1), created_at |-> 12,
        line_items |-> << Item(Null, Null, Null, Some(9)),
                          Item(Some(8), Some(""), Some(-1), Some(-3)) >>],
       [customer |-> Some(2), created_at |-> 13,
        line_items |-> << Item(Some(8), Some(""), Some(1), Some(3)) >>],
       [customer |-> Null, created_at |-> 30,
        line_items |-> << >>] >>

\* The JSON of order id at revision rev (0: as placed, then one more per
\* edit, such as a refund or a fulfilment, which changes the totals and the
\* status strings).
UpstreamOrder(id, rev) ==
    [id |-> id,
     customer |-> Catalog[id].customer,
     created_at |-> Catalog[id].created_at,
     total_price |-> Some(10 * id + 5 * rev),
     subtotal_price |-> Some(9 * id + 4 * rev),
     total_tax |-> IF rev = 0 THEN Null ELSE Some(rev),
     financial_status |->
         IF rev = 0 THEN Null ELSE IF rev = 1 THEN Some("paid") ELSE Some("refunded"),
     fulfillment_status |-> IF rev = 0 THEN Null ELSE Some("fulfilled"),
     line_items |-> Catalog[id].line_items]

SetMax(S) == CHOOSE x \in S : \A y \in S : y <= x

Range(s) == {s[i] : i \in DOMAIN s}

\* the elements of a set of integers in ascending order
RECURSIVE SortedSeq(_)
SortedSeq(S) ==
    IF S = {} THEN << >>
    ELSE LET m == CHOOSE x \in S : \A y \in S : x <= y
         IN  <<m>> \o SortedSeq(S \ {m})

\* What the GraphQL nodes query answers for a variant: inventoryQuantity
\* (may be negative or null) and the product's custom.vendor metafield
UpstreamVariant ==
    << [inventoryQuantity |-> Some(5), vendor |-> Some("D")],
       [inventoryQuantity |-> Some(-2), vendor |-> Null],
       [inventoryQuantity |-> Null, vendor |-> Some("E")],
       [inventoryQuantity |-> Some(0), vendor |-> Null] >>

\* a row of products as an earlier import left it
StoredProduct == [inventory_quantity |-> 1, distributor |-> Some("old")]

----------------------------------------------------------------------------
(* The store: tables are sequences of rows (heap order), so that a         *)
(* duplicate row is representable                                          *)

\* parseFloat(x || 0)
ParseFloatOr0(x) == IF IsNull(x) THEN 0 ELSE x[1]

\* the VALUES ($1..$11) row of the order insert
OrderRow(order) ==
    [order_id |-> order.id,
     customer_id |-> order.customer,
     total_price |-> ParseFloatOr0(order.total_price),
     subtotal_price |-> ParseFloatOr0(order.subtotal_price),
     total_tax |-> ParseFloatOr0(order.total_tax),
     order_date |-> order.created_at,
     financial_status |->
         IF IsNull(order.financial_status) THEN "pending" ELSE order.financial_status[1],
     fulfillment_status |-> order.fulfillment_status,
     is_returning_customer |-> FALSE]

\* Postgres accepts ON CONFLICT (cols) only if a unique index is on exactly
\* these columns; otherwise the statement raises an error
ArbiterExists(target, uniques) == target \in uniques

\* Mutation: a plain INSERT, no conflict handling
UpsertOrderNoConflict(tbl, row) == Append(tbl, row)

\* INSERT INTO orders ... ON CONFLICT (order_id) DO UPDATE SET total_price,
\* financial_status, fulfillment_status (updated_at is not modelled)
UpsertOrder(tbl, row) ==
    IF \E i \in DOMAIN tbl : tbl[i].order_id = row.order_id
    THEN [i \in DOMAIN tbl |->
            IF tbl[i].order_id = row.order_id
            THEN [tbl[i] EXCEPT !.total_price = row.total_price,
                                !.financial_status = row.financial_status,
                                !.fulfillment_status = row.fulfillment_status]
            ELSE tbl[i]]
    ELSE Append(tbl, row)

\* item.variant_id?.toString() || null, replaced by custom_{order}_{position}
\* when there is no variant id or the sku is null or ''
IsCustomItem(item) ==
    IsNull(item.variant_id) \/ IsNull(item.sku) \/ item.sku = Some("")

VariantKey(orderId, position, item) ==
    IF IsCustomItem(item) THEN <<"custom", orderId, position>>
    ELSE <<"v", item.variant_id[1]>>

\* the VALUES ($1..$8) row of the line item insert
ItemRow(orderId, position, item) ==
    [order_id |-> orderId,
     variant_id |-> VariantKey(orderId, position, item),
     quantity |-> IF IsNull(item.quantity) \/ item.quantity = Some(0)
                  THEN 1 ELSE item.quantity[1],
     price |-> ParseFloatOr0(item.price),
     cart_position |-> position]

\* INSERT INTO order_items ... ON CONFLICT (order_id, variant_id) DO UPDATE
\* SET quantity, price, cart_position
UpsertItem(tbl, row) ==
    IF \E i \in DOMAIN tbl :
          tbl[i].order_id = row.order_id /\ tbl[i].variant_id = row.variant_id
    THEN [i \in DOMAIN tbl |->
            IF tbl[i].order_id = row.order_id /\ tbl[i].variant_id = row.variant_id
            THEN [tbl[i] EXCEPT !.quantity = row.quantity,
                                !.price = row.price,
                                !.cart_position = row.cart_position]
            ELSE tbl[i]]
    ELSE Append(tbl, row)

\* SELECT MAX(order_date) FROM orders
MaxOrderDate(tbl) ==
    IF tbl = << >> THEN Null ELSE Some(SetMax({tbl[i].order_date : i \in DOMAIN tbl}))

\* SELECT customer_id FROM orders WHERE customer_id IS NOT NULL
\* GROUP BY customer_id HAVING COUNT(*) > 1
ReturningCustomers(tbl) ==
    {c \in {tbl[i].customer_id : i \in DOMAIN tbl} :
        /\ ~IsNull(c)
        /\ Cardinality({i \in DOMAIN tbl : tbl[i].customer_id = c}) > 1}

\* Mutation: HAVING COUNT(*) >= 1
MarkReturningAtLeastOne(tbl) ==
    [i \in DOMAIN tbl |->
        IF ~IsNull(tbl[i].customer_id)
        THEN [tbl[i] EXCEPT !.is_returning_customer = TRUE]
        ELSE tbl[i]]

\* Mutation: SET is_returning_customer = NOT is_returning_customer
MarkReturningToggle(tbl) ==
    [i \in DOMAIN tbl |->
        IF tbl[i].customer_id \in ReturningCustomers(tbl) /\ ~IsNull(tbl[i].customer_id)
        THEN [tbl[i] EXCEPT !.is_returning_customer = ~@]
        ELSE tbl[i]]

\* UPDATE orders SET is_returning_customer = TRUE WHERE customer_id IN (...)
\* AND customer_id IS NOT NULL
MarkReturning(tbl) ==
    [i \in DOMAIN tbl |->
        IF tbl[i].customer_id \in ReturningCustomers(tbl) /\ ~IsNull(tbl[i].customer_id)
        THEN [tbl[i] EXCEPT !.is_returning_customer = TRUE]
        ELSE tbl[i]]

\* Mutation: forceFullSync is not looked at
WindowStartIgnoresForce(forceFullSync, lastOrderDate) ==
    IF ~IsNull(lastOrderDate)
    THEN lastOrderDate[1] - OverlapMinutes
    ELSE SinceFloor

\* Mutation: the overlap is not subtracted
WindowStartNoOverlap(forceFullSync, lastOrderDate) ==
    IF ~forceFullSync /\ ~IsNull(lastOrderDate)
    THEN lastOrderDate[1]
    ELSE SinceFloor

\* sinceDate: the floor, or the newest persisted order date minus 5 minutes
WindowStart(forceFullSync, lastOrderDate) ==
    IF ~forceFullSync /\ ~IsNull(lastOrderDate)
    THEN lastOrderDate[1] - OverlapMinutes
    ELSE SinceFloor

----------------------------------------------------------------------------
(* Correlation pairs *)

\* decimal text of a natural number, as a sequence of digits
RECURSIVE Digits(_)
Digits(n) == IF n < 10 THEN <<n>> ELSE Digits(n \div 10) \o <<n % 10>>

\* text order of two digit strings
RECURSIVE TextLess(_, _)
TextLess(a, b) ==
    IF a = << >> THEN b # << >>
    ELSE IF b = << >> THEN FALSE
    ELSE IF a[1] # b[1] THEN a[1] < b[1]
    ELSE TextLess(Tail(a), Tail(b))

\* Mutation: oi1.variant_id <> oi2.variant_id
VariantDiffer(a, b) == a # b

\* oi1.variant_id < oi2.variant_id on TEXT: a digit sorts before 'c', and
\* custom_{o}_{p} keys compare by the text of o, then by the text of p
VariantLess(a, b) ==
    IF a[1] = "v" /\ b[1] = "v" THEN TextLess(Digits(a[2]), Digits(b[2]))
    ELSE IF a[1] = "v" THEN TRUE
    ELSE IF b[1] = "v" THEN FALSE
    ELSE \/ TextLess(Digits(a[2]), Digits(b[2]))
         \/ a[2] = b[2] /\ TextLess(Digits(a[3]), Digits(b[3]))

\* SELECT oi1.variant_id, oi2.variant_id, COUNT(*) FROM order_items oi1 JOIN
\* order_items oi2 ON oi1.order_id = oi2.order_id WHERE oi1.variant_id <
\* oi2.variant_id GROUP BY 1, 2 HAVING COUNT(*) >= 2
CorrelationRows(items) ==
    LET Joined(a, b) == {<<i, j>> \in (DOMAIN items) \X (DOMAIN items) :
                            /\ items[i].order_id = items[j].order_id
                            /\ items[i].variant_id = a
                            /\ items[j].variant_id = b}
        keys == {items[i].variant_id : i \in DOMAIN items}
    IN  {[variant_a_id |-> a, variant_b_id |-> b,
          co_purchase_count |-> Cardinality(Joined(a, b))] :
            <<a, b>> \in {p \in keys \X keys :
                            /\ VariantLess(p[1], p[2])
                            /\ Cardinality(Joined(p[1], p[2])) >= 2}}

\* correlation_score DECIMAL(5,4) DEFAULT 0, as a fraction <<numerator,
\* denominator>>
ScoreDefault == <<0, 1>>

\* the row the correlation insert writes for a row of the pair query: the
\* column list names no correlation_score, so the column takes its default
CorrelationRow(row) ==
    [variant_a_id |-> row.variant_a_id,
     variant_b_id |-> row.variant_b_id,
     co_purchase_count |-> row.co_purchase_count,
     correlation_score |-> ScoreDefault]

\* INSERT INTO product_correlations ... ON CONFLICT (variant_a_id,
\* variant_b_id) DO UPDATE SET co_purchase_count (last_updated is not modelled)
UpsertCorrelation(tbl, row) ==
    IF \E i \in DOMAIN tbl :
          tbl[i].variant_a_id = row.variant_a_id /\ tbl[i].variant_b_id = row.variant_b_id
    THEN [i \in DOMAIN tbl |->
            IF tbl[i].variant_a_id = row.variant_a_id /\ tbl[i].variant_b_id = row.variant_b_id
            THEN [tbl[i] EXCEPT !.co_purchase_count = row.co_purchase_count]
            ELSE tbl[i]]
    ELSE Append(tbl, row)

\* the rows of order_items for the order with this id whose cart holds these
\* variant ids in cart order (Null: a custom sale item)
RowsOfBasket(orderId, basket) ==
    [p \in 1 .. Len(basket) |->
        ItemRow(orderId, p - 1, Item(basket[p], Some("S"), Some(1), Some(5)))]

\* the order_items table holding these baskets as orders 1, 2, ...
RECURSIVE ItemTable(_)
ItemTable(baskets) ==
    IF baskets = << >> THEN << >>
    ELSE ItemTable(SubSeq(baskets, 1, Len(baskets) - 1))
            \o RowsOfBasket(Len(baskets), baskets[Len(baskets)])

\* The line items a rebuild can find in order_items: orders {X,Y}, {X,Y},
\* {X}; a variant at two cart positions of one order; ids whose text order
\* differs from their numeric order; two pairs bought together twice;
\* custom sale items; a custom sale item in a cart that holds a variant at
\* two positions; nothing.
ItemTables ==
    {ItemTable(<< <<Some(7), Some(8)>>, <<Some(7), Some(8)>>, <<Some(7)>> >>),
     ItemTable(<< <<Some(7), Some(7), Some(8)>>, <<Some(8)>> >>),
     ItemTable(<< <<Some(9), Some(10)>>, <<Some(10), Some(9)>> >>),
     ItemTable(<< <<Some(7), Some(8)>>, <<Some(8), Some(7)>>,
                  <<Some(7), Some(9)>>, <<Some(9), Some(7)>> >>),
     ItemTable(<< <<Some(7), Null>>, <<Some(7), Null>> >>),
     ItemTable(<< <<Some(7), Some(7), Null>> >>),
     ItemTable(<< >>)}

----------------------------------------------------------------------------
(* State *)

VARIABLES
    placed,                \* upstream: orders 1..placed exist in the shop
    revision,              \* upstream: how often each editable order was edited
    orders,                \* table orders
    order_items,           \* table order_items
    product_correlations,  \* table product_correlations
    orderProcessingStatus, \* the process-wide status record
    req,                   \* the in-flight POST /api/order-blitz handlers
    corr,                  \* the in-flight calculateCorrelations() calls
    runs,                  \* runs started so far; a run's number is its clock
    faults,                \* failures injected so far
    response,              \* the body of the response sent last
    prev,                  \* history: the run that terminated last
    seen,                  \* history: ids of the orders some run has fetched
    lastUpsert,            \* history: per order id, the row of its last upsert
    corrDone,              \* history: the rebuild that ended last
    observed,              \* history: what GET /api/correlations read last
    products,              \* table products: per variant id, stock and distributor
    sync,                  \* the in-flight updateInventoryLevels() calls
    invRuns,               \* inventory sync runs started so far
    rejects,               \* upstream answers other than a success so far
    imp,                   \* the page loop of importOrderData / importProducts
    planogram              \* the planogram node of the Realtime Database

vars == <<placed, revision, orders, order_items, product_correlations,
          orderProcessingStatus, req, corr, runs, faults, response, prev,
          seen, lastUpsert, corrDone, observed, products, sync, invRuns,
          rejects, imp, planogram>>

upstreamVars == <<placed, revision>>
storeVars == <<orders, order_items, product_correlations>>
corrHist == <<corrDone, observed>>
invVars == <<products, sync, invRuns, rejects>>
clientVars == <<imp, planogram>>

\* a handler slot with no request in it
IdleReq ==
    [pc |-> "idle", run |-> 0, forceFullSync |-> FALSE,
     lastOrderDate |-> Null, sinceDate |-> Null, orders |-> << >>,
     i |-> 0, position |-> 0,
     totalOrdersInserted |-> 0, totalItemsInserted |-> 0,
     matching |-> {}, fault |-> FALSE]

NoRun ==
    [run |-> 0, outcome |-> "none", forceFullSync |-> FALSE,
     lastOrderDate |-> Null, sinceDate |-> Null, page |-> << >>,
     matching |-> {}, fault |-> FALSE, repeated |-> FALSE, seen |-> {},
     ordersProcessed |-> 0, itemsProcessed |-> 0,
     ordersAfter |-> << >>, itemsAfter |-> << >>]

\* the history record of the run of handler h ending with outcome; repeated
\* tells that this run and the one before it both succeeded without a
\* failure on the same page
RunRecord(h, outcome, ordersAfter, itemsAfter) ==
    [run |-> h.run, outcome |-> outcome, forceFullSync |-> h.forceFullSync,
     lastOrderDate |-> h.lastOrderDate, sinceDate |-> h.sinceDate,
     page |-> h.orders, matching |-> h.matching, fault |-> h.fault,
     repeated |-> /\ prev.outcome = "ok" /\ ~prev.fault /\ prev.page = h.orders
                  /\ outcome = "ok" /\ ~h.fault,
     seen |-> seen,
     ordersProcessed |-> h.totalOrdersInserted,
     itemsProcessed |-> h.totalItemsInserted,
     ordersAfter |-> ordersAfter, itemsAfter |-> itemsAfter]

\* a calculateCorrelations() slot with no call in it; of a call: rows, the
\* rows of the pair query not inserted yet; caller, who called; overlap,
\* whether another call was in flight during this one; before, the edges in
\* the table when it was called
IdleCorr == [pc |-> "idle", rows |-> {}, caller |-> "none", overlap |-> FALSE,
             before |-> {}]

\* the history record of a rebuild; repeated tells that this rebuild and the
\* one that ended before it both ended normally and overlapped no other;
\* before, the edges in the table when it was called; cleared, whether its
\* DELETE had been done when it ended
NoRebuild == [n |-> 0, ok |-> FALSE, overlap |-> FALSE, repeated |-> FALSE,
              edges |-> {}, before |-> {}, cleared |-> FALSE]

NoRead == [read |-> FALSE, single |-> FALSE, before |-> {}, edges |-> {}]

\* history of the batch a processBatch call chain is working on: the
\* requests issued and the 429 / other HTTP error answers received for it;
\* authAt, the number of the request that was first answered 401 or 403
\* (0: none was)
NoLog == [requests |-> 0, rateLimited |-> 0, httpErrors |-> 0, authAt |-> 0]

\* history: no batch has returned yet
NoBatch == [cause |-> "none", success |-> FALSE, updatedInBatch |-> 0,
            errorCount |-> 0, size |-> 0, retryCount |-> 0, log |-> NoLog]

\* an updateInventoryLevels() slot with no call in it; of a call: i, the
\* index of the batch loop; j, the node being written; wait, the delay being
\* slept (ms); log and last, history of the current and the last batch;
\* reason and hint, history of the answer that is being slept on: its kind
\* and its Retry-After header; result, history of what the last call returned
IdleSync ==
    [pc |-> "idle", variantIds |-> << >>, i |-> 0, retryCount |-> 0, j |-> 0,
     wait |-> 0, updatedCount |-> 0, errorCount |-> 0,
     updatedInBatch |-> 0, errorsInBatch |-> 0, log |-> NoLog, last |-> NoBatch,
     reason |-> "none", hint |-> Null, result |-> Null]

\* no import is running; of a running import: kind, which function; pageCount,
\* hasNextPage, pageInfo, its locals; link, history: the Link header of the
\* answer received last
IdleImport ==
    [kind |-> "none", pc |-> "idle", pageCount |-> 0, hasNextPage |-> FALSE,
     pageInfo |-> Null, link |-> Null]

\* the database node of one planogram id with nothing under it (metadata,
\* fixtures; sections: the children sections/0, sections/1, ... in key
\* order), no savePlanogram or loadPlanogram in progress (data, i: the
\* argument and the section index of the save; got: what the load has read)
\* and, as history: saves, the saves started; saved, the argument of the save
\* that returned last; loaded, what the load that returned last returned
NoPlanogram ==
    [metadata |-> Null, fixtures |-> Null, sections |-> << >>,
     pc |-> "idle", data |-> Null, i |-> 0, got |-> Null, saves |-> 0,
     saved |-> Null, loaded |-> Null]

Init ==
    /\ placed = 0
    /\ revision = [id \in EditableOrders |-> 0]
    /\ orders = << >>
    /\ order_items = << >>
    /\ product_correlations = << >>
    /\ orderProcessingStatus =
         [isProcessing |-> FALSE, lastCompleted |-> Null, lastResult |-> Null,
          progress |-> [processed |-> 0, total |-> 0]]
    /\ req = [r \in Reqs |-> IdleReq]
    /\ corr = [c \in CorrSlots |-> IdleCorr]
    /\ runs = 0
    /\ faults = 0
    /\ response = "none"
    /\ prev = NoRun
    /\ seen = {}
    /\ lastUpsert = [id \in 1 .. NumOrders |-> Null]
    /\ corrDone = NoRebuild
    /\ observed = NoRead
    /\ products = [v \in 1 .. NumVariants |-> StoredProduct]
    /\ sync = [s \in InvSlots |-> IdleSync]
    /\ invRuns = 0
    /\ rejects = 0
    /\ imp = IdleImport
    /\ planogram = NoPlanogram

----------------------------------------------------------------------------
(* The upstream shop changes *)

\* a customer places the next order
PlaceOrder ==
    /\ placed < NumOrders
    /\ placed' = placed + 1
    /\ UNCHANGED <<revision, storeVars, orderProcessingStatus, req, corr, runs,
                   faults, response, prev, seen, lastUpsert, corrHist,
                   invVars, clientVars>>

\* an order is refunded / fulfilled: its totals and status strings change
EditOrder(id) ==
    /\ id \in 1 .. placed
    /\ revision[id] < MaxRev
    /\ revision' = [revision EXCEPT ![id] = @ + 1]
    /\ UNCHANGED <<placed, storeVars, orderProcessingStatus, req, corr, runs,
                   faults, response, prev, seen, lastUpsert, corrHist,
                   invVars, clientVars>>

----------------------------------------------------------------------------
(* POST /api/order-blitz *)

Min(a, b) == IF a <= b THEN a ELSE b

\* the orders.json page as the handler holds it: <<id, revision>> in id order
PageOf(ids) ==
    LET s == SortedSeq(ids)
    IN  [k \in DOMAIN s |-> <<s[k], IF s[k] \in EditableOrders THEN revision[s[k]] ELSE 0>>]

\* created_at_min=sinceDate
Matching(since) == {id \in 1 .. placed : Catalog[id].created_at >= since}

\* what one request can answer: at most limit orders of the matching ones
\* (which ones the shop picks is the shop's choice)
Pages(since) ==
    {ids \in SUBSET Matching(since) :
        Cardinality(ids) = Min(PageLimit, Cardinality(Matching(since)))}

\* the run of handler h has ended: it becomes the newest history record
Terminated(h, outcome, ordersAfter, itemsAfter) ==
    prev' = RunRecord(h, outcome, ordersAfter, itemsAfter)

\* an arriving request is handled in the first slot that holds no handler
Arrives(r) ==
    /\ req[r].pc = "idle"
    /\ \A q \in Reqs : req[q].pc = "idle" => r <= q

\* if (!storeName || !accessToken) return res.status(400)
BadRequest(r) ==
    /\ Arrives(r)
    /\ response # "400"
    /\ req' = [req EXCEPT ![r] = IdleReq]
    /\ response' = "400"
    /\ UNCHANGED <<upstreamVars, storeVars, orderProcessingStatus, corr, runs,
                   faults, prev, seen, lastUpsert, corrHist, invVars, clientVars>>

\* if (orderProcessingStatus.isProcessing) return {processing: true}
RejectBusy(r) ==
    /\ Arrives(r)
    /\ orderProcessingStatus.isProcessing
    /\ response # "processing"
    /\ req' = [req EXCEPT ![r] = IdleReq]
    /\ response' = "processing"
    /\ UNCHANGED <<upstreamVars, storeVars, orderProcessingStatus, corr, runs,
                   faults, prev, seen, lastUpsert, corrHist, invVars, clientVars>>

\* Mutation: the guard is missing
StartUnguarded(r, forceFullSync) ==
    /\ Arrives(r)
    /\ runs < MaxRuns
    /\ orderProcessingStatus' =
         [orderProcessingStatus EXCEPT !.isProcessing = TRUE,
                                       !.progress = [processed |-> 0, total |-> 0]]
    /\ runs' = runs + 1
    /\ req' = [req EXCEPT ![r] = [IdleReq EXCEPT
                  !.pc = "queryMax", !.run = runs + 1,
                  !.forceFullSync = forceFullSync]]
    /\ UNCHANGED <<upstreamVars, storeVars, corr, faults, response, prev, seen, lastUpsert,
                   corrHist, invVars, clientVars>>

\* Mutation: a run starts without resetting progress
StartKeepsProgress(r, forceFullSync) ==
    /\ Arrives(r)
    /\ ~orderProcessingStatus.isProcessing
    /\ runs < MaxRuns
    /\ orderProcessingStatus' =
         [orderProcessingStatus EXCEPT !.isProcessing = TRUE]
    /\ runs' = runs + 1
    /\ req' = [req EXCEPT ![r] = [IdleReq EXCEPT
                  !.pc = "queryMax", !.run = runs + 1,
                  !.forceFullSync = forceFullSync]]
    /\ UNCHANGED <<upstreamVars, storeVars, corr, faults, response, prev, seen, lastUpsert,
                   corrHist, invVars, clientVars>>

\* the guard is passed: isProcessing = true, progress reset, SELECT MAX issued
Start(r, forceFullSync) ==
    /\ Arrives(r)
    /\ ~orderProcessingStatus.isProcessing
    /\ runs < MaxRuns
    /\ orderProcessingStatus' =
         [orderProcessingStatus EXCEPT !.isProcessing = TRUE,
                                       !.progress = [processed |-> 0, total |-> 0]]
    /\ runs' = runs + 1
    /\ req' = [req EXCEPT ![r] = [IdleReq EXCEPT
                  !.pc = "queryMax", !.run = runs + 1,
                  !.forceFullSync = forceFullSync]]
    /\ UNCHANGED <<upstreamVars, storeVars, corr, faults, response, prev, seen, lastUpsert,
                   corrHist, invVars, clientVars>>

\* Mutation: the catch block answers 500 and leaves the flag set
CatchKeepsFlag(r) ==
    /\ faults < MaxFaults
    /\ faults' = faults + 1
    /\ req' = [req EXCEPT ![r] = IdleReq]
    /\ response' = "500"
    /\ Terminated([req[r] EXCEPT !.fault = TRUE], "aborted", orders, order_items)
    /\ UNCHANGED <<upstreamVars, storeVars, orderProcessingStatus, corr, runs, seen, lastUpsert,
                   corrHist, invVars, clientVars>>

\* Mutation: the catch block rolls the run back, deleting the rows of the
\* orders of its page
CatchRollsBack(r) ==
    /\ faults < MaxFaults
    /\ faults' = faults + 1
    /\ orderProcessingStatus' = [orderProcessingStatus EXCEPT !.isProcessing = FALSE]
    /\ orders' = SelectSeq(orders, LAMBDA row :
                     row.order_id \notin {req[r].orders[k][1] : k \in DOMAIN req[r].orders})
    /\ req' = [req EXCEPT ![r] = IdleReq]
    /\ response' = "500"
    /\ Terminated([req[r] EXCEPT !.fault = TRUE], "aborted", orders', order_items)
    /\ UNCHANGED <<upstreamVars, order_items, product_correlations, corr, runs, seen,
                   lastUpsert, corrHist, invVars, clientVars>>

\* catch (error): isProcessing = false, res.status(500)
Catch(r) ==
    /\ faults < MaxFaults
    /\ faults' = faults + 1
    /\ orderProcessingStatus' = [orderProcessingStatus EXCEPT !.isProcessing = FALSE]
    /\ req' = [req EXCEPT ![r] = IdleReq]
    /\ response' = "500"
    /\ Terminated([req[r] EXCEPT !.fault = TRUE], "aborted", orders, order_items)
    /\ UNCHANGED <<upstreamVars, storeVars, corr, runs, seen, lastUpsert, corrHist,
                   invVars, clientVars>>

\* SELECT MAX(order_date) answers: sinceDate is computed, the fetch is issued
MaxQueryOk(r) ==
    /\ req[r].pc = "queryMax"
    /\ LET last == MaxOrderDate(orders)
           since == WindowStart(req[r].forceFullSync, last)
       IN  req' = [req EXCEPT ![r] = [@ EXCEPT
                     !.pc = "fetch",
                     !.lastOrderDate = last,
                     !.sinceDate = Some(since)]]
    /\ UNCHANGED <<upstreamVars, storeVars, orderProcessingStatus, corr, runs,
                   faults, response, prev, seen, lastUpsert, corrHist,
                   invVars, clientVars>>

\* SELECT MAX(order_date) throws
MaxQueryFail(r) ==
    /\ req[r].pc = "queryMax"
    /\ Catch(r)

\* fetch throws, or the response is not ok
FetchFail(r) ==
    /\ req[r].pc = "fetch"
    /\ Catch(r)

\* the shop answers an empty page: 'No new orders to process'
FetchEmpty(r) ==
    /\ req[r].pc = "fetch"
    /\ Matching(req[r].sinceDate[1]) = {}
    /\ orderProcessingStatus' =
         [isProcessing |-> FALSE,
          lastCompleted |-> Some(req[r].run),
          lastResult |-> Some([ordersProcessed |-> 0, itemsProcessed |-> 0,
                               message |-> Some("No new orders to process")]),
          progress |-> [orderProcessingStatus.progress EXCEPT !.total = 0]]
    /\ req' = [req EXCEPT ![r] = IdleReq]
    /\ response' = "uptodate"
    /\ Terminated(req[r], "uptodate", orders, order_items)
    /\ UNCHANGED <<upstreamVars, storeVars, corr, runs, faults, seen, lastUpsert,
                   corrHist, invVars, clientVars>>

\* the shop answers a page of orders: the first order insert is issued
FetchPage(r, ids) ==
    /\ req[r].pc = "fetch"
    /\ ids \in Pages(req[r].sinceDate[1])
    /\ ids # {}
    /\ orderProcessingStatus' =
         [orderProcessingStatus EXCEPT !.progress.total = Cardinality(ids)]
    /\ req' = [req EXCEPT ![r] = [@ EXCEPT
                  !.pc = "order", !.orders = PageOf(ids), !.i = 1,
                  !.matching = Matching(req[r].sinceDate[1])]]
    /\ seen' = seen \cup ids
    /\ UNCHANGED <<upstreamVars, storeVars, corr, runs, faults, response, prev, lastUpsert,
                   corrHist, invVars, clientVars>>

\* the handler state after the order at index h.i is dealt with: the next
\* order of the batch, or the delay that ends a batch
NextOrder(h) ==
    IF h.i % BATCH_SIZE = 0 \/ h.i = Len(h.orders)
    THEN [h EXCEPT !.pc = "delay", !.position = 0]
    ELSE [h EXCEPT !.pc = "order", !.i = @ + 1, !.position = 0]

CurrentOrder(h) == UpstreamOrder(h.orders[h.i][1], h.orders[h.i][2])

\* the order insert succeeds: the first line item insert is issued, or the
\* order is done
OrderInserted(r) ==
    /\ req[r].pc = "order"
    /\ ArbiterExists(OrdersConflictTarget, OrdersUnique)
    /\ LET h == req[r]
           order == CurrentOrder(h)
           h1 == [h EXCEPT !.totalOrdersInserted = @ + 1]
       IN  /\ orders' = UpsertOrder(orders, OrderRow(order))
           /\ lastUpsert' = [lastUpsert EXCEPT ![order.id] = Some(OrderRow(order))]
           /\ IF Len(order.line_items) > 0
              THEN /\ req' = [req EXCEPT ![r] = [h1 EXCEPT !.pc = "item", !.position = 0]]
                   /\ UNCHANGED orderProcessingStatus
              ELSE /\ req' = [req EXCEPT ![r] = NextOrder(h1)]
                   /\ orderProcessingStatus' =
                        [orderProcessingStatus EXCEPT !.progress.processed = @ + 1]
    /\ UNCHANGED <<upstreamVars, order_items, product_correlations, corr, runs,
                   faults, response, prev, seen, corrHist, invVars, clientVars>>

\* the order insert throws: logged, the order and its items are skipped
OrderFailed(r) ==
    /\ req[r].pc = "order"
    /\ faults < MaxFaults
    /\ faults' = faults + 1
    /\ req' = [req EXCEPT ![r] = NextOrder([req[r] EXCEPT !.fault = TRUE])]
    /\ UNCHANGED <<upstreamVars, storeVars, orderProcessingStatus, corr, runs,
                   response, prev, seen, lastUpsert, corrHist, invVars, clientVars>>

\* the line item insert at h.position answers (an error is logged and the
\* item skipped): the next item insert is issued, or the order is done
ItemAnswered(r) ==
    /\ req[r].pc = "item"
    /\ LET h == req[r]
           order == CurrentOrder(h)
           ok == ArbiterExists(OrderItemsConflictTarget, OrderItemsUnique)
           h1 == IF ok THEN [h EXCEPT !.totalItemsInserted = @ + 1] ELSE h
       IN  /\ order_items' =
                 IF ok
                 THEN UpsertItem(order_items,
                                 ItemRow(order.id, h.position, order.line_items[h.position + 1]))
                 ELSE order_items
           /\ IF h.position + 1 < Len(order.line_items)
              THEN /\ req' = [req EXCEPT ![r] = [h1 EXCEPT !.position = @ + 1]]
                   /\ UNCHANGED orderProcessingStatus
              ELSE /\ req' = [req EXCEPT ![r] = NextOrder(h1)]
                   /\ orderProcessingStatus' =
                        [orderProcessingStatus EXCEPT !.progress.processed = @ + 1]
    /\ UNCHANGED <<upstreamVars, orders, product_correlations, corr, runs,
                   faults, response, prev, seen, lastUpsert, corrHist,
                   invVars, clientVars>>

\* the 100 ms delay after a batch is over: next batch, or the loyalty update
BatchDelayOver(r) ==
    /\ req[r].pc = "delay"
    /\ req' = [req EXCEPT ![r] =
                 IF @.i < Len(@.orders)
                 THEN [@ EXCEPT !.pc = "order", !.i = @ + 1]
                 ELSE [@ EXCEPT !.pc = "loyalty"]]
    /\ UNCHANGED <<upstreamVars, storeVars, orderProcessingStatus, corr, runs,
                   faults, response, prev, seen, lastUpsert, corrHist,
                   invVars, clientVars>>

FreeCorrSlot == CHOOSE c \in CorrSlots :
                   corr[c].pc = "idle" /\ \A d \in CorrSlots : corr[d].pc = "idle" => c <= d

\* the calculateCorrelations() calls between their first and last statement
InFlight == {c \in CorrSlots : corr[c].pc \in {"delete", "select", "insert"}}

\* calculateCorrelations() is called: it runs up to its first await, the
\* DELETE (the order sync does not await the call, the manual trigger does)
StartRebuild(c, caller) ==
    [d \in CorrSlots |->
        IF d = c
        THEN [pc |-> "delete", rows |-> {}, caller |-> caller,
              overlap |-> InFlight # {}, before |-> Range(product_correlations)]
        ELSE IF d \in InFlight THEN [corr[d] EXCEPT !.overlap = TRUE]
        ELSE corr[d]]

\* Mutation: the handler awaits calculateCorrelations() before it records
\* the status and sends the response
LoyaltyDoneAwaits(r) ==
    /\ req[r].pc = "loyalty"
    /\ \E c \in CorrSlots : corr[c].pc = "idle"
    /\ orders' = MarkReturning(orders)
    /\ corr' = StartRebuild(FreeCorrSlot, "blitz")
    /\ req' = [req EXCEPT ![r].pc = "awaitCorrelations"]
    /\ UNCHANGED <<upstreamVars, order_items, product_correlations,
                   orderProcessingStatus, response, prev, runs, faults, seen,
                   lastUpsert, corrHist, invVars, clientVars>>

\* the loyalty update succeeds: correlations are scheduled, the status is
\* recorded, the response is sent
LoyaltyDone(r) ==
    /\ req[r].pc = "loyalty"
    /\ \E c \in CorrSlots : corr[c].pc = "idle"
    /\ orders' = MarkReturning(orders)
    /\ corr' = StartRebuild(FreeCorrSlot, "blitz")
    /\ orderProcessingStatus' =
         [orderProcessingStatus EXCEPT
            !.isProcessing = FALSE,
            !.lastCompleted = Some(req[r].run),
            !.lastResult = Some([ordersProcessed |-> req[r].totalOrdersInserted,
                                 itemsProcessed |-> req[r].totalItemsInserted,
                                 message |-> Null])]
    /\ req' = [req EXCEPT ![r] = IdleReq]
    /\ response' = "ok"
    /\ Terminated(req[r], "ok", orders', order_items)
    /\ UNCHANGED <<upstreamVars, order_items, product_correlations, runs, faults, seen, lastUpsert,
                   corrHist, invVars, clientVars>>

\* the loyalty update throws
LoyaltyFail(r) ==
    /\ req[r].pc = "loyalty"
    /\ Catch(r)

----------------------------------------------------------------------------
(* calculateCorrelations *)

\* the slot of call c once calculateCorrelations() has returned: the manual
\* trigger goes on to count the rows, the order sync is not waiting
AfterRebuild(c) ==
    IF corr[c].caller = "manual"
    THEN [IdleCorr EXCEPT !.pc = "count", !.caller = "manual"]
    ELSE IdleCorr

\* call c has ended, normally (ok) or in its catch block, leaving table tbl
Completed(c, ok, tbl) ==
    corrDone' = [n |-> corrDone.n + 1, ok |-> ok, overlap |-> corr[c].overlap,
                 repeated |-> /\ corrDone.n > 0 /\ corrDone.ok /\ ~corrDone.overlap
                              /\ ok /\ ~corr[c].overlap,
                 edges |-> Range(tbl), before |-> corr[c].before,
                 cleared |-> corr[c].pc \in {"select", "insert"}]

\* DELETE FROM product_correlations is done: the pair query is issued
CorrDeleted(c) ==
    /\ corr[c].pc = "delete"
    /\ product_correlations' = << >>
    /\ corr' = [corr EXCEPT ![c].pc = "select"]
    /\ UNCHANGED <<upstreamVars, orders, order_items, orderProcessingStatus,
                   req, runs, faults, response, prev, seen, lastUpsert, corrHist,
                   invVars, clientVars>>

\* Mutation: the pair query carries LIMIT 1 and no ORDER BY
CorrSelectedLimited(c) ==
    /\ corr[c].pc = "select"
    /\ \E rows \in SUBSET CorrelationRows(order_items) :
          /\ Cardinality(rows) = Min(1, Cardinality(CorrelationRows(order_items)))
          /\ corr' = [corr EXCEPT ![c] =
                         IF rows = {} THEN AfterRebuild(c)
                         ELSE [@ EXCEPT !.pc = "insert", !.rows = rows]]
          /\ IF rows = {}
             THEN Completed(c, TRUE, product_correlations)
             ELSE UNCHANGED corrDone
    /\ UNCHANGED <<upstreamVars, storeVars, orderProcessingStatus, req, runs,
                   faults, response, prev, seen, lastUpsert, observed,
                   invVars, clientVars>>

\* the pair query answers: with no rows the rebuild is over, otherwise the
\* first insert is issued
CorrSelected(c) ==
    /\ corr[c].pc = "select"
    /\ LET rows == CorrelationRows(order_items)
       IN  /\ corr' = [corr EXCEPT ![c] =
                         IF rows = {} THEN AfterRebuild(c)
                         ELSE [@ EXCEPT !.pc = "insert", !.rows = rows]]
           /\ IF rows = {}
              THEN Completed(c, TRUE, product_correlations)
              ELSE UNCHANGED corrDone
    /\ UNCHANGED <<upstreamVars, storeVars, orderProcessingStatus, req, runs,
                   faults, response, prev, seen, lastUpsert, observed,
                   invVars, clientVars>>

\* the insert of one row of the pair query is done (the query has no ORDER
\* BY: the rows come in any order): the next insert is issued, or the
\* rebuild is over
CorrInserted(c, row) ==
    /\ corr[c].pc = "insert"
    /\ row \in corr[c].rows
    /\ ArbiterExists(CorrelationsConflictTarget, CorrelationsUnique)
    /\ product_correlations' = UpsertCorrelation(product_correlations, CorrelationRow(row))
    /\ IF corr[c].rows = {row}
       THEN /\ corr' = [corr EXCEPT ![c] = AfterRebuild(c)]
            /\ Completed(c, TRUE, product_correlations')
       ELSE /\ corr' = [corr EXCEPT ![c].rows = @ \ {row}]
            /\ UNCHANGED corrDone
    /\ UNCHANGED <<upstreamVars, orders, order_items, orderProcessingStatus,
                   req, runs, faults, response, prev, seen, lastUpsert, observed,
                   invVars, clientVars>>

\* a statement of the rebuild throws: logged by the catch block, the rebuild
\* is over
CorrFailed(c) ==
    /\ c \in InFlight
    /\ faults < MaxFaults
    /\ faults' = faults + 1
    /\ corr' = [corr EXCEPT ![c] = AfterRebuild(c)]
    /\ Completed(c, FALSE, product_correlations)
    /\ UNCHANGED <<upstreamVars, storeVars, orderProcessingStatus, req, runs,
                   response, prev, seen, lastUpsert, observed, invVars, clientVars>>

----------------------------------------------------------------------------
(* POST /api/correlations/calculate and GET /api/correlations *)

\* a manual trigger arrives: calculateCorrelations() is called and awaited
CalculateRequested(c) ==
    /\ \E d \in CorrSlots : corr[d].pc = "idle"
    /\ c = FreeCorrSlot
    /\ corrDone.n + Cardinality(InFlight) < MaxRebuilds
    /\ corr' = StartRebuild(c, "manual")
    /\ UNCHANGED <<upstreamVars, storeVars, orderProcessingStatus, req, runs,
                   faults, response, prev, seen, lastUpsert, corrHist,
                   invVars, clientVars>>

\* SELECT COUNT(*) FROM product_correlations answers: the response is sent
CountAnswered(c) ==
    /\ corr[c].pc = "count"
    /\ corr' = [corr EXCEPT ![c] = IdleCorr]
    /\ response' = "calculated"
    /\ UNCHANGED <<upstreamVars, storeVars, orderProcessingStatus, req, runs,
                   faults, prev, seen, lastUpsert, corrHist, invVars, clientVars>>

\* SELECT COUNT(*) throws: res.status(500)
CountFailed(c) ==
    /\ corr[c].pc = "count"
    /\ faults < MaxFaults
    /\ faults' = faults + 1
    /\ corr' = [corr EXCEPT ![c] = IdleCorr]
    /\ response' = "500"
    /\ UNCHANGED <<upstreamVars, storeVars, orderProcessingStatus, req, runs,
                   prev, seen, lastUpsert, corrHist, invVars, clientVars>>

\* GET /api/correlations: the query that yields the response reads FROM
\* product_correlations at one instant (the first query, or the fallback
\* when the first one yields no row); the joins to products / order_items
\* only decorate the edges.  A read while no rebuild is in flight changes
\* nothing and is not recorded.
CorrelationsRead ==
    /\ InFlight # {}
    /\ observed' =
         [read |-> TRUE,
          single |-> \E c \in CorrSlots : InFlight = {c} /\ ~corr[c].overlap,
          before |-> IF \E c \in CorrSlots : InFlight = {c}
                     THEN corr[CHOOSE c \in CorrSlots : InFlight = {c}].before
                     ELSE {},
          edges |-> Range(product_correlations)]
    /\ UNCHANGED <<upstreamVars, storeVars, orderProcessingStatus, req, corr,
                   runs, faults, response, prev, seen, lastUpsert, corrDone,
                   invVars, clientVars>>

----------------------------------------------------------------------------
(* updateInventoryLevels and its processBatch *)

RECURSIVE Pow2(_)
Pow2(n) == IF n = 0 THEN 1 ELSE 2 * Pow2(n - 1)

\* variantIds.slice(i, i + batchSize)
Batch(h) == SubSeq(h.variantIds, h.i + 1, Min(h.i + batchSize, Len(h.variantIds)))

\* processBatch(batch, batchNumber, retryCount) is called: it runs up to its
\* first await, the fetch of the GraphQL request
CallProcessBatch(h, retryCount) ==
    [h EXCEPT !.pc = "fetch", !.retryCount = retryCount, !.wait = 0, !.j = 0,
              !.updatedInBatch = 0, !.errorsInBatch = 0,
              !.log.requests = @ + 1, !.reason = "none", !.hint = Null]

\* Mutation: a batch that failed ends the run without a result
BatchReturnedAbortsOnFailure(h, cause, success, updatedInBatch, errorCount) ==
    LET h1 == [h EXCEPT
                 !.updatedCount = @ + updatedInBatch,
                 !.errorCount = @ + errorCount,
                 !.last = [cause |-> cause, success |-> success,
                           updatedInBatch |-> updatedInBatch,
                           errorCount |-> errorCount, size |-> Len(Batch(h)),
                           retryCount |-> h.retryCount, log |-> h.log]]
    IN  IF ~success
        THEN [IdleSync EXCEPT !.last = h1.last]
        ELSE IF h.i + batchSize < Len(h.variantIds)
        THEN [h1 EXCEPT !.pc = "batchDelay", !.wait = 500,
                        !.reason = "none", !.hint = Null]
        ELSE [IdleSync EXCEPT
                !.last = h1.last,
                !.result = Some([success |-> TRUE, updated |-> h1.updatedCount,
                                 errors |-> h1.errorCount,
                                 total |-> Len(h.variantIds)])]

\* the outermost processBatch returns {success, updatedInBatch, errorCount}
\* to the batch loop: the counts are added, then the 500 ms delay before the
\* next batch, or the return of updateInventoryLevels
BatchReturned(h, cause, success, updatedInBatch, errorCount) ==
    LET h1 == [h EXCEPT
                 !.updatedCount = @ + updatedInBatch,
                 !.errorCount = @ + errorCount,
                 !.last = [cause |-> cause, success |-> success,
                           updatedInBatch |-> updatedInBatch,
                           errorCount |-> errorCount, size |-> Len(Batch(h)),
                           retryCount |-> h.retryCount, log |-> h.log]]
    IN  IF h.i + batchSize < Len(h.variantIds)
        THEN [h1 EXCEPT !.pc = "batchDelay", !.wait = 500,
                        !.reason = "none", !.hint = Null]
        ELSE [IdleSync EXCEPT
                !.last = h1.last,
                !.result = Some([success |-> TRUE, updated |-> h1.updatedCount,
                                 errors |-> h1.errorCount,
                                 total |-> Len(h.variantIds)])]

\* {success: false, updatedInBatch: 0, errorCount: batch.length}
BatchFailed(h, cause) == BatchReturned(h, cause, FALSE, 0, Len(Batch(h)))

\* a trigger calls updateInventoryLevels(): SELECT variant_id FROM products
\* is issued (no trigger looks at a run in progress)
StartInventorySync(s, trigger) ==
    /\ sync[s].pc = "idle"
    /\ \A q \in InvSlots : sync[q].pc = "idle" => s <= q
    /\ trigger \in Triggers
    /\ invRuns < MaxSyncs
    /\ invRuns' = invRuns + 1
    /\ sync' = [sync EXCEPT ![s] = [IdleSync EXCEPT !.pc = "select"]]
    /\ UNCHANGED <<upstreamVars, storeVars, orderProcessingStatus, req, corr,
                   runs, faults, response, prev, seen, lastUpsert, corrHist,
                   products, rejects, clientVars>>

\* the SELECT answers: no variant, return; otherwise the first batch
VariantsSelected(s) ==
    /\ sync[s].pc = "select"
    /\ LET ids == SortedSeq(DOMAIN products)
           h == [sync[s] EXCEPT !.variantIds = ids, !.i = 0, !.log = NoLog]
       IN  sync' = [sync EXCEPT ![s] =
                      IF Len(ids) = 0 THEN IdleSync ELSE CallProcessBatch(h, 0)]
    /\ UNCHANGED <<upstreamVars, storeVars, orderProcessingStatus, req, corr,
                   runs, faults, response, prev, seen, lastUpsert, corrHist,
                   products, invRuns, rejects, clientVars>>

\* the SELECT throws: updateInventoryLevels rethrows to its caller
SelectFailed(s) ==
    /\ sync[s].pc = "select"
    /\ faults < MaxFaults
    /\ faults' = faults + 1
    /\ sync' = [sync EXCEPT ![s] = IdleSync]
    /\ UNCHANGED <<upstreamVars, storeVars, orderProcessingStatus, req, corr,
                   runs, response, prev, seen, lastUpsert, corrHist,
                   products, invRuns, rejects, clientVars>>

\* the characters of a header value that are decimal digits, with their value
DigitValue ==
    [ch \in {"0", "1", "2", "3", "4", "5", "6", "7", "8", "9"} |->
        CASE ch = "0" -> 0 [] ch = "1" -> 1 [] ch = "2" -> 2 [] ch = "3" -> 3
          [] ch = "4" -> 4 [] ch = "5" -> 5 [] ch = "6" -> 6 [] ch = "7" -> 7
          [] ch = "8" -> 8 [] ch = "9" -> 9]

\* the number written by a sequence of digit characters
RECURSIVE DigitsValue(_)
DigitsValue(text) ==
    IF text = << >> THEN 0
    ELSE 10 * DigitsValue(SubSeq(text, 1, Len(text) - 1)) + DigitValue[text[Len(text)]]

\* parseInt(text): the number written by the leading digits of the text,
\* whatever follows them; NaN (Null) if the text does not begin with a digit
ParseInt(text) ==
    LET k == CHOOSE n \in 0 .. Len(text) :
                 /\ \A i \in 1 .. n : text[i] \in DOMAIN DigitValue
                 /\ n = Len(text) \/ text[n + 1] \notin DOMAIN DigitValue
    IN  IF k = 0 THEN Null ELSE Some(DigitsValue(SubSeq(text, 1, k)))

\* Mutation: the Retry-After header is not looked at
WaitTimeNoHint(retryAfter, retryCount) == baseDelay * Pow2(retryCount)

\* waitTime = retryAfter ? parseInt(retryAfter) * 1000
\*                       : baseDelay * Math.pow(2, retryCount)
\* (an absent and an empty header are falsy; setTimeout takes NaN as 1 ms)
WaitTime(retryAfter, retryCount) ==
    IF IsNull(retryAfter) \/ retryAfter = Some(<< >>)
    THEN baseDelay * Pow2(retryCount)
    ELSE IF IsNull(ParseInt(retryAfter[1])) THEN 1
    ELSE ParseInt(retryAfter[1])[1] * 1000

\* the Retry-After headers a 429 answer comes with: none, "7", "2.0"
RetryAfterHeaders == {Null, Some(<<"7">>), Some(<<"2", ".", "0">>)}

\* the answer is 429: the wait is Retry-After seconds or baseDelay *
\* 2^retryCount, and it is slept before the ceiling is looked at
RateLimited(s, retryAfter) ==
    /\ sync[s].pc = "fetch"
    /\ rejects < MaxRejects
    /\ rejects' = rejects + 1
    /\ sync' = [sync EXCEPT ![s] = [@ EXCEPT
                  !.pc = "rateSleep",
                  !.wait = WaitTime(retryAfter, sync[s].retryCount),
                  !.reason = "429",
                  !.hint = retryAfter,
                  !.log.rateLimited = @ + 1]]
    /\ UNCHANGED <<upstreamVars, storeVars, orderProcessingStatus, req, corr,
                   runs, faults, response, prev, seen, lastUpsert, corrHist,
                   products, invRuns, clientVars>>

\* Mutation: the batch is retried whatever retryCount is
RateSleepOverNoCeiling(s) ==
    /\ sync[s].pc = "rateSleep"
    /\ sync' = [sync EXCEPT ![s] = CallProcessBatch(@, @.retryCount + 1)]
    /\ UNCHANGED <<upstreamVars, storeVars, orderProcessingStatus, req, corr,
                   runs, faults, response, prev, seen, lastUpsert, corrHist,
                   products, invRuns, rejects, clientVars>>

\* the wait after a 429 is over: retry if retryCount < maxRetries, else the
\* batch fails
RateSleepOver(s) ==
    /\ sync[s].pc = "rateSleep"
    /\ sync' = [sync EXCEPT ![s] =
                  IF @.retryCount < maxRetries
                  THEN CallProcessBatch(@, @.retryCount + 1)
                  ELSE BatchFailed(@, "rateLimit")]
    /\ UNCHANGED <<upstreamVars, storeVars, orderProcessingStatus, req, corr,
                   runs, faults, response, prev, seen, lastUpsert, corrHist,
                   products, invRuns, rejects, clientVars>>

\* Mutation: the non-429 branch retries whatever retryCount is
HttpErrorAlwaysRetries(s, status) ==
    /\ sync[s].pc = "fetch"
    /\ rejects < MaxRejects
    /\ rejects' = rejects + 1
    /\ sync' = [sync EXCEPT ![s] = [@ EXCEPT
                  !.log.httpErrors = @ + 1,
                  !.pc = "retrySleep", !.wait = 2000, !.reason = "http"]]
    /\ UNCHANGED <<upstreamVars, storeVars, orderProcessingStatus, req, corr,
                   runs, faults, response, prev, seen, lastUpsert, corrHist,
                   products, invRuns, clientVars>>

\* the answer is another HTTP error (!response.ok), its text is read: if
\* retryCount < 1 a retry after 2000 ms, else the batch fails
HttpError(s, status) ==
    /\ sync[s].pc = "fetch"
    /\ rejects < MaxRejects
    /\ rejects' = rejects + 1
    /\ LET h == [sync[s] EXCEPT
                    !.log.httpErrors = @ + 1,
                    !.log.authAt = IF status \in {401, 403} /\ @ = 0
                                   THEN sync[s].log.requests ELSE @]
       IN  sync' = [sync EXCEPT ![s] =
                      IF h.retryCount < 1
                      THEN [h EXCEPT !.pc = "retrySleep", !.wait = 2000,
                                     !.reason = "http"]
                      ELSE BatchFailed(h, "http")]
    /\ UNCHANGED <<upstreamVars, storeVars, orderProcessingStatus, req, corr,
                   runs, faults, response, prev, seen, lastUpsert, corrHist,
                   products, invRuns, clientVars>>

\* the answer is 200 with result.errors: a throttling message is retried
\* after baseDelay * 2^retryCount while retryCount < maxRetries; any other
\* error, or throttling at the ceiling, fails the batch
PayloadErrors(s, isThrottled) ==
    /\ sync[s].pc = "fetch"
    /\ rejects < MaxRejects
    /\ rejects' = rejects + 1
    /\ sync' = [sync EXCEPT ![s] =
                  IF isThrottled /\ @.retryCount < maxRetries
                  THEN [@ EXCEPT !.pc = "retrySleep",
                                 !.wait = baseDelay * Pow2(sync[s].retryCount),
                                 !.reason = "throttled"]
                  ELSE BatchFailed(@, IF isThrottled THEN "throttled" ELSE "graphql")]
    /\ UNCHANGED <<upstreamVars, storeVars, orderProcessingStatus, req, corr,
                   runs, faults, response, prev, seen, lastUpsert, corrHist,
                   products, invRuns, clientVars>>

\* fetch (or reading the body) throws: the catch block retries after
\* baseDelay * 2^retryCount if the message names 429 / rate limit / throttled
\* and retryCount < maxRetries, else the batch fails
FetchThrows(s, namesRateLimit) ==
    /\ sync[s].pc = "fetch"
    /\ rejects < MaxRejects
    /\ rejects' = rejects + 1
    /\ sync' = [sync EXCEPT ![s] =
                  IF namesRateLimit /\ @.retryCount < maxRetries
                  THEN [@ EXCEPT !.pc = "retrySleep",
                                 !.wait = baseDelay * Pow2(sync[s].retryCount),
                                 !.reason = "thrown"]
                  ELSE BatchFailed(@, "thrown")]
    /\ UNCHANGED <<upstreamVars, storeVars, orderProcessingStatus, req, corr,
                   runs, faults, response, prev, seen, lastUpsert, corrHist,
                   products, invRuns, clientVars>>

\* the wait before a retry is over: processBatch calls itself
RetrySleepOver(s) ==
    /\ sync[s].pc = "retrySleep"
    /\ sync' = [sync EXCEPT ![s] = CallProcessBatch(@, @.retryCount + 1)]
    /\ UNCHANGED <<upstreamVars, storeVars, orderProcessingStatus, req, corr,
                   runs, faults, response, prev, seen, lastUpsert, corrHist,
                   products, invRuns, rejects, clientVars>>

\* the answer is 200 with one node per requested id: the UPDATE of the first
\* node is issued
NodesReceived(s) ==
    /\ sync[s].pc = "fetch"
    /\ sync' = [sync EXCEPT ![s] = [@ EXCEPT !.pc = "update", !.j = 0]]
    /\ UNCHANGED <<upstreamVars, storeVars, orderProcessingStatus, req, corr,
                   runs, faults, response, prev, seen, lastUpsert, corrHist,
                   products, invRuns, rejects, clientVars>>

\* the sync after the UPDATE of node j was answered: the next node, or the
\* batch returns {success: true, updatedInBatch, errorCount: errorsInBatch}
AfterNode(h) ==
    IF h.j + 1 < Len(Batch(h))
    THEN [h EXCEPT !.j = @ + 1]
    ELSE BatchReturned(h, "done", TRUE, h.updatedInBatch, h.errorsInBatch)

\* Mutation: a node without the metafield leaves the stored distributor
NodeUpdatedKeepsDistributor(s) ==
    /\ sync[s].pc = "update"
    /\ LET h == sync[s]
           variantId == Batch(h)[h.j + 1]
           node == UpstreamVariant[variantId]
       IN  /\ products' = [products EXCEPT ![variantId] =
                  [inventory_quantity |->
                       IF IsNull(node.inventoryQuantity) THEN 0
                       ELSE node.inventoryQuantity[1],
                   distributor |-> IF IsNull(node.vendor) THEN @.distributor
                                   ELSE node.vendor]]
           /\ sync' = [sync EXCEPT ![s] =
                         AfterNode([h EXCEPT !.updatedInBatch = @ + 1])]
    /\ UNCHANGED <<upstreamVars, storeVars, orderProcessingStatus, req, corr,
                   runs, faults, response, prev, seen, lastUpsert, corrHist,
                   invRuns, rejects, clientVars>>

\* UPDATE products SET inventory_quantity, distributor WHERE variant_id is
\* done for node j
NodeUpdated(s) ==
    /\ sync[s].pc = "update"
    /\ LET h == sync[s]
           variantId == Batch(h)[h.j + 1]
           node == UpstreamVariant[variantId]
       IN  /\ products' = [products EXCEPT ![variantId] =
                  [inventory_quantity |->
                       IF IsNull(node.inventoryQuantity) THEN 0
                       ELSE node.inventoryQuantity[1],
                   distributor |-> node.vendor]]
           /\ sync' = [sync EXCEPT ![s] =
                         AfterNode([h EXCEPT !.updatedInBatch = @ + 1])]
    /\ UNCHANGED <<upstreamVars, storeVars, orderProcessingStatus, req, corr,
                   runs, faults, response, prev, seen, lastUpsert, corrHist,
                   invRuns, rejects, clientVars>>

\* node j of the answer is null: logged, errorsInBatch++, no UPDATE
NodeNull(s) ==
    /\ sync[s].pc = "update"
    /\ faults < MaxFaults
    /\ faults' = faults + 1
    /\ sync' = [sync EXCEPT ![s] =
                  AfterNode([@ EXCEPT !.errorsInBatch = @ + 1])]
    /\ UNCHANGED <<upstreamVars, storeVars, orderProcessingStatus, req, corr,
                   runs, response, prev, seen, lastUpsert, corrHist,
                   products, invRuns, rejects, clientVars>>

\* the UPDATE for node j throws: logged, errorsInBatch++
NodeUpdateFailed(s) ==
    /\ sync[s].pc = "update"
    /\ faults < MaxFaults
    /\ faults' = faults + 1
    /\ sync' = [sync EXCEPT ![s] =
                  AfterNode([@ EXCEPT !.errorsInBatch = @ + 1])]
    /\ UNCHANGED <<upstreamVars, storeVars, orderProcessingStatus, req, corr,
                   runs, response, prev, seen, lastUpsert, corrHist,
                   products, invRuns, rejects, clientVars>>

\* Mutation: the batch loop does not await processBatch: the next batch is
\* requested while the request of the current one is pending
NextBatchNoAwait(s) ==
    /\ sync[s].pc \in {"batchDelay", "fetch"}
    /\ sync[s].i + batchSize < Len(sync[s].variantIds)
    /\ sync' = [sync EXCEPT ![s] =
                  CallProcessBatch([@ EXCEPT !.i = @ + batchSize, !.log = NoLog], 0)]
    /\ UNCHANGED <<upstreamVars, storeVars, orderProcessingStatus, req, corr,
                   runs, faults, response, prev, seen, lastUpsert, corrHist,
                   products, invRuns, rejects, clientVars>>

\* the 500 ms between two batches are over: the next batch is requested
NextBatch(s) ==
    /\ sync[s].pc = "batchDelay"
    /\ sync' = [sync EXCEPT ![s] =
                  CallProcessBatch([@ EXCEPT !.i = @ + batchSize, !.log = NoLog], 0)]
    /\ UNCHANGED <<upstreamVars, storeVars, orderProcessingStatus, req, corr,
                   runs, faults, response, prev, seen, lastUpsert, corrHist,
                   products, invRuns, rejects, clientVars>>

----------------------------------------------------------------------------
(* The page loops of importOrderData and importProducts *)

\* while (hasNextPage && pageCount < MAX_PAGES)
MAX_PAGES == 50

\* the shop answers no more pages than this in one import
MaxFetch == MAX_PAGES + 2

\* The Link headers an answer can carry: none; one that names only the
\* previous page; one that names the next page with page_info as the last
\* query parameter (alone or after the previous page); one that names the
\* next page with another parameter after page_info; one that names a next
\* page without page_info.  rels: the rel values of the header; cursor: the
\* page_info of the rel="next" URL; closed: whether '>' follows that cursor.
LinkHeaders ==
    {Null,
     Some([rels |-> {"previous"}, cursor |-> Some("c"), closed |-> TRUE]),
     Some([rels |-> {"next"}, cursor |-> Some("c"), closed |-> TRUE]),
     Some([rels |-> {"previous", "next"}, cursor |-> Some("c"), closed |-> TRUE]),
     Some([rels |-> {"next"}, cursor |-> Some("c"), closed |-> FALSE]),
     Some([rels |-> {"next"}, cursor |-> Null, closed |-> TRUE])}

\* linkHeader && linkHeader.includes('rel="next"')
HasRelNext(link) == ~IsNull(link) /\ "next" \in link[1].rels

\* linkHeader.match(/<[^>]*page_info=([^>&]+)>;\s*rel="next"/): the cursor of
\* the next page, or no match (Null)
NextMatch(link) ==
    IF HasRelNext(link) /\ ~IsNull(link[1].cursor) /\ link[1].closed
    THEN link[1].cursor
    ELSE Null

\* importOrderData or importProducts is called: the first page is requested
ImportStart(kind) ==
    /\ imp.pc \in {"idle", "done", "failed"}
    /\ kind \in {"orders", "products"}
    /\ imp' = [IdleImport EXCEPT !.kind = kind, !.pc = "fetch", !.hasNextPage = TRUE]
    /\ UNCHANGED <<upstreamVars, storeVars, orderProcessingStatus, req, corr,
                   runs, faults, response, prev, seen, lastUpsert, corrHist,
                   invVars, planogram>>

\* the answer is not ok: the import throws
ImportNotOk ==
    /\ imp.pc = "fetch"
    /\ imp' = [imp EXCEPT !.pc = "failed"]
    /\ UNCHANGED <<upstreamVars, storeVars, orderProcessingStatus, req, corr,
                   runs, faults, response, prev, seen, lastUpsert, corrHist,
                   invVars, planogram>>

\* Mutation: the loop of importOrderData has no page ceiling
OrdersPageAnsweredNoCeiling(link) ==
    /\ imp.kind = "orders"
    /\ imp.pc = "fetch"
    /\ link \in LinkHeaders
    /\ imp.pageCount + 1 < MaxFetch \/ IsNull(NextMatch(link))
    /\ LET hasNextPage == HasRelNext(link) /\ ~IsNull(NextMatch(link))
           pageInfo == IF hasNextPage THEN NextMatch(link) ELSE imp.pageInfo
       IN  imp' = [imp EXCEPT
                     !.pageCount = @ + 1,
                     !.hasNextPage = hasNextPage,
                     !.pageInfo = pageInfo,
                     !.link = link,
                     !.pc = IF hasNextPage THEN "fetch" ELSE "done"]
    /\ UNCHANGED <<upstreamVars, storeVars, orderProcessingStatus, req, corr,
                   runs, faults, response, prev, seen, lastUpsert, corrHist,
                   invVars, planogram>>

\* importOrderData receives a page: pageCount++, the Link header is read,
\* and the next page is requested if hasNextPage && pageCount < MAX_PAGES
OrdersPageAnswered(link) ==
    /\ imp.kind = "orders"
    /\ imp.pc = "fetch"
    /\ link \in LinkHeaders
    /\ imp.pageCount + 1 < MaxFetch \/ IsNull(NextMatch(link))
    /\ LET hasNextPage == HasRelNext(link) /\ ~IsNull(NextMatch(link))
           pageInfo == IF hasNextPage THEN NextMatch(link) ELSE imp.pageInfo
       IN  imp' = [imp EXCEPT
                     !.pageCount = @ + 1,
                     !.hasNextPage = hasNextPage,
                     !.pageInfo = pageInfo,
                     !.link = link,
                     !.pc = IF hasNextPage /\ imp.pageCount + 1 < MAX_PAGES
                            THEN "fetch" ELSE "done"]
    /\ UNCHANGED <<upstreamVars, storeVars, orderProcessingStatus, req, corr,
                   runs, faults, response, prev, seen, lastUpsert, corrHist,
                   invVars, planogram>>

\* importProducts receives a page and has written its variants: pageCount++,
\* pageInfo = nextMatch ? nextMatch[1] : null, hasNextPage = !!pageInfo, then
\* the 500 ms delay
ProductsPageAnswered(link) ==
    /\ imp.kind = "products"
    /\ imp.pc = "fetch"
    /\ link \in LinkHeaders
    /\ imp.pageCount + 1 < MaxFetch \/ IsNull(NextMatch(link))
    /\ LET pageInfo == IF HasRelNext(link) THEN NextMatch(link) ELSE imp.pageInfo
           hasNextPage == HasRelNext(link) /\ ~IsNull(pageInfo)
       IN  imp' = [imp EXCEPT
                     !.pageCount = @ + 1,
                     !.hasNextPage = hasNextPage,
                     !.pageInfo = pageInfo,
                     !.link = link,
                     !.pc = "delay"]
    /\ UNCHANGED <<upstreamVars, storeVars, orderProcessingStatus, req, corr,
                   runs, faults, response, prev, seen, lastUpsert, corrHist,
                   invVars, planogram>>

\* the 500 ms of importProducts are over: while (hasNextPage)
ProductsDelayOver ==
    /\ imp.pc = "delay"
    /\ imp' = [imp EXCEPT !.pc = IF imp.hasNextPage THEN "fetch" ELSE "done"]
    /\ UNCHANGED <<upstreamVars, storeVars, orderProcessingStatus, req, corr,
                   runs, faults, response, prev, seen, lastUpsert, corrHist,
                   invVars, planogram>>

----------------------------------------------------------------------------

(* The chunked planogram store: savePlanogram, loadPlanogram and           *)
(* deletePlanogram of one signed-in user on one planogram id               *)

\* the data a save is called with: fixtures is absent, [] or a list;
\* sections is absent or a list of up to MaxSections sections (the cleaning
\* of a section turns its undefined properties into null, which the database
\* does not store: a section stands for its cleaned value); data.id is the
\* planogram id, shopifyConfig and unknownProducts are absent
PlanogramData ==
    [fixtures : {Null, Some(<< >>), Some(<<"F">>), Some(<<"G", "H">>)},
     sections : {Null} \cup
                {Some(q) : q \in UNION {[1 .. n -> {"a", "b"}] : n \in 0 .. MaxSections}}]

\* data.fixtures ? data.fixtures.length : 0, and the same for sections
LengthOr0(list) == IF IsNull(list) THEN 0 ELSE Len(list[1])

\* ref(sections/i).set(section): child i is replaced or added
SetChild(children, i, value) ==
    IF i + 1 <= Len(children)
    THEN [children EXCEPT ![i + 1] = value]
    ELSE Append(children, value)

\* the save after its fixtures are dealt with: the first section is written,
\* or the save returns planogramId
AfterFixtures(p) ==
    IF LengthOr0(p.data[1].sections) > 0
    THEN [p EXCEPT !.pc = "section", !.i = 0]
    ELSE [p EXCEPT !.pc = "idle", !.saved = p.data, !.data = Null, !.i = 0]

\* savePlanogram(data) is called: the write of metadata is issued
SavePlanogram(data) ==
    /\ planogram.pc = "idle"
    /\ planogram.saves < MaxSaves
    /\ planogram' = [planogram EXCEPT
                       !.pc = "metadata", !.data = Some(data), !.i = 0,
                       !.saves = @ + 1, !.loaded = Null]
    /\ UNCHANGED <<upstreamVars, storeVars, orderProcessingStatus, req, corr,
                   runs, faults, response, prev, seen, lastUpsert, corrHist,
                   invVars, imp>>

\* metadata is written: the write of the fixtures is issued if there are
\* any, otherwise the sections follow
MetadataSet ==
    /\ planogram.pc = "metadata"
    /\ LET data == planogram.data[1]
           p == [planogram EXCEPT
                   !.metadata = Some([fixturesCount |-> LengthOr0(data.fixtures),
                                      sectionsCount |-> LengthOr0(data.sections)])]
       IN  planogram' = IF LengthOr0(data.fixtures) > 0
                        THEN [p EXCEPT !.pc = "fixtures"]
                        ELSE AfterFixtures(p)
    /\ UNCHANGED <<upstreamVars, storeVars, orderProcessingStatus, req, corr,
                   runs, faults, response, prev, seen, lastUpsert, corrHist,
                   invVars, imp>>

\* the fixtures are written
FixturesSet ==
    /\ planogram.pc = "fixtures"
    /\ planogram' = AfterFixtures([planogram EXCEPT
                                     !.fixtures = planogram.data[1].fixtures])
    /\ UNCHANGED <<upstreamVars, storeVars, orderProcessingStatus, req, corr,
                   runs, faults, response, prev, seen, lastUpsert, corrHist,
                   invVars, imp>>

\* section i is written: the next section, or the save returns planogramId
SectionSet ==
    /\ planogram.pc = "section"
    /\ LET list == planogram.data[1].sections[1]
           p == [planogram EXCEPT
                   !.sections = SetChild(@, planogram.i, list[planogram.i + 1])]
       IN  planogram' = IF planogram.i + 1 < Len(list)
                        THEN [p EXCEPT !.i = @ + 1]
                        ELSE [p EXCEPT !.pc = "idle", !.saved = p.data,
                                       !.data = Null, !.i = 0]
    /\ UNCHANGED <<upstreamVars, storeVars, orderProcessingStatus, req, corr,
                   runs, faults, response, prev, seen, lastUpsert, corrHist,
                   invVars, imp>>

\* a write of the save throws: the save rethrows, what it wrote stays
SaveFails ==
    /\ planogram.pc \in {"metadata", "fixtures", "section"}
    /\ planogram' = [planogram EXCEPT !.pc = "idle", !.data = Null, !.i = 0,
                                      !.saved = Null]
    /\ UNCHANGED <<upstreamVars, storeVars, orderProcessingStatus, req, corr,
                   runs, faults, response, prev, seen, lastUpsert, corrHist,
                   invVars, imp>>

\* deletePlanogram(planogramId): the node is removed
DeletePlanogram ==
    /\ planogram.pc = "idle"
    /\ planogram' = [NoPlanogram EXCEPT !.saves = planogram.saves]
    /\ UNCHANGED <<upstreamVars, storeVars, orderProcessingStatus, req, corr,
                   runs, faults, response, prev, seen, lastUpsert, corrHist,
                   invVars, imp>>

\* loadPlanogram(planogramId) is called: the read of metadata is issued
LoadPlanogram ==
    /\ planogram.pc = "idle"
    /\ planogram' = [planogram EXCEPT !.pc = "readMetadata", !.got = Null,
                                      !.loaded = Null]
    /\ UNCHANGED <<upstreamVars, storeVars, orderProcessingStatus, req, corr,
                   runs, faults, response, prev, seen, lastUpsert, corrHist,
                   invVars, imp>>

\* metadata is read: null is returned when there is none, otherwise the
\* read of the fixtures is issued
MetadataRead ==
    /\ planogram.pc = "readMetadata"
    /\ planogram' =
         IF IsNull(planogram.metadata)
         THEN [planogram EXCEPT !.pc = "idle", !.loaded = Some(Null)]
         ELSE [planogram EXCEPT
                 !.pc = "readFixtures",
                 !.got = Some([metadata |-> planogram.metadata[1],
                               fixtures |-> << >>, sections |-> << >>])]
    /\ UNCHANGED <<upstreamVars, storeVars, orderProcessingStatus, req, corr,
                   runs, faults, response, prev, seen, lastUpsert, corrHist,
                   invVars, imp>>

\* the fixtures are read ([] when there are none): the read of the sections
\* is issued
FixturesRead ==
    /\ planogram.pc = "readFixtures"
    /\ planogram' = [planogram EXCEPT
                       !.pc = "readSections",
                       !.got = Some([@[1] EXCEPT !.fixtures =
                                       IF IsNull(planogram.fixtures) THEN << >>
                                       ELSE planogram.fixtures[1]])]
    /\ UNCHANGED <<upstreamVars, storeVars, orderProcessingStatus, req, corr,
                   runs, faults, response, prev, seen, lastUpsert, corrHist,
                   invVars, imp>>

\* the sections are read, every child in key order; the configuration reads
\* follow and {...metadata, fixtures, sections, ...} is returned
SectionsRead ==
    /\ planogram.pc = "readSections"
    /\ planogram' = [planogram EXCEPT
                       !.pc = "idle", !.got = Null,
                       !.loaded = Some(Some([planogram.got[1] EXCEPT
                                               !.sections = planogram.sections]))]
    /\ UNCHANGED <<upstreamVars, storeVars, orderProcessingStatus, req, corr,
                   runs, faults, response, prev, seen, lastUpsert, corrHist,
                   invVars, imp>>

----------------------------------------------------------------------------

(* Specification *)

Next ==
    \/ PlaceOrder
    \/ \E id \in EditableOrders : EditOrder(id)
    \/ \E r \in Reqs : BadRequest(r)
    \/ \E r \in Reqs : RejectBusy(r)
    \/ \E r \in Reqs, f \in BOOLEAN : Start(r, f)
    \/ \E r \in Reqs : MaxQueryOk(r)
    \/ \E r \in Reqs : MaxQueryFail(r)
    \/ \E r \in Reqs : FetchFail(r)
    \/ \E r \in Reqs : FetchEmpty(r)
    \/ \E r \in Reqs, ids \in SUBSET (1 .. NumOrders) : FetchPage(r, ids)
    \/ \E r \in Reqs : OrderInserted(r)
    \/ \E r \in Reqs : OrderFailed(r)
    \/ \E r \in Reqs : ItemAnswered(r)
    \/ \E r \in Reqs : BatchDelayOver(r)
    \/ \E r \in Reqs : LoyaltyDone(r)
    \/ \E r \in Reqs : LoyaltyFail(r)
    \/ \E c \in CorrSlots : CorrDeleted(c)
    \/ \E c \in CorrSlots : CorrSelected(c)
    \/ \E c \in CorrSlots : CorrFailed(c)

Spec == Init /\ [][Next]_vars

\* The correlation rebuild on line items that are in the store already (the
\* order sync above never gets a line item past its conflict target).  In
\* Spec the pair query finds no row, so CorrInserted is not enabled there.
CorrInit ==
    /\ placed = 0
    /\ revision = [id \in EditableOrders |-> 0]
    /\ orders = << >>
    /\ order_items \in ItemTables
    /\ product_correlations = << >>
    /\ orderProcessingStatus =
         [isProcessing |-> FALSE, lastCompleted |-> Null, lastResult |-> Null,
          progress |-> [processed |-> 0, total |-> 0]]
    /\ req = [r \in Reqs |-> IdleReq]
    /\ corr = [c \in CorrSlots |-> IdleCorr]
    /\ runs = 0
    /\ faults = 0
    /\ response = "none"
    /\ prev = NoRun
    /\ seen = {}
    /\ lastUpsert = [id \in 1 .. NumOrders |-> Null]
    /\ corrDone = NoRebuild
    /\ observed = NoRead
    /\ products = [v \in 1 .. NumVariants |-> StoredProduct]
    /\ sync = [s \in InvSlots |-> IdleSync]
    /\ invRuns = 0
    /\ rejects = 0
    /\ imp = IdleImport
    /\ planogram = NoPlanogram

CorrNext ==
    \/ \E c \in CorrSlots : CalculateRequested(c)
    \/ \E c \in CorrSlots : CorrDeleted(c)
    \/ \E c \in CorrSlots : CorrSelected(c)
    \/ \E c \in CorrSlots : \E row \in corr[c].rows : CorrInserted(c, row)
    \/ \E c \in CorrSlots : CorrFailed(c)
    \/ \E c \in CorrSlots : CountAnswered(c)
    \/ \E c \in CorrSlots : CountFailed(c)
    \/ CorrelationsRead

CorrSpec == CorrInit /\ [][CorrNext]_vars

\* The page loops of the two imports
PageNext ==
    \/ \E kind \in {"orders", "products"} : ImportStart(kind)
    \/ ImportNotOk
    \/ \E link \in LinkHeaders : OrdersPageAnswered(link)
    \/ \E link \in LinkHeaders : ProductsPageAnswered(link)
    \/ ProductsDelayOver

PageSpec == Init /\ [][PageNext]_vars

\* The planogram store of one user and one planogram id
PlanNext ==
    \/ \E data \in PlanogramData : SavePlanogram(data)
    \/ MetadataSet
    \/ FixturesSet
    \/ SectionSet
    \/ SaveFails
    \/ DeletePlanogram
    \/ LoadPlanogram
    \/ MetadataRead
    \/ FixturesRead
    \/ SectionsRead

PlanSpec == Init /\ [][PlanNext]_vars

\* The inventory sync of the products table
InvNext ==
    \/ \E s \in InvSlots, trigger \in Triggers : StartInventorySync(s, trigger)
    \/ \E s \in InvSlots : VariantsSelected(s)
    \/ \E s \in InvSlots : SelectFailed(s)
    \/ \E s \in InvSlots, retryAfter \in RetryAfterHeaders : RateLimited(s, retryAfter)
    \/ \E s \in InvSlots : RateSleepOver(s)
    \/ \E s \in InvSlots, status \in {401, 403, 500} : HttpError(s, status)
    \/ \E s \in InvSlots, isThrottled \in BOOLEAN : PayloadErrors(s, isThrottled)
    \/ \E s \in InvSlots, namesRateLimit \in BOOLEAN : FetchThrows(s, namesRateLimit)
    \/ \E s \in InvSlots : RetrySleepOver(s)
    \/ \E s \in InvSlots : NodesReceived(s)
    \/ \E s \in InvSlots : NodeUpdated(s)
    \/ \E s \in InvSlots : NodeNull(s)
    \/ \E s \in InvSlots : NodeUpdateFailed(s)
    \/ \E s \in InvSlots : NextBatch(s)

InvSpec == Init /\ [][InvNext]_vars

\* One inventory sync at a time, every await of which settles
OneSyncNext ==
    \/ \E trigger \in Triggers : StartInventorySync(1, trigger)
    \/ VariantsSelected(1)
    \/ SelectFailed(1)
    \/ \E retryAfter \in RetryAfterHeaders : RateLimited(1, retryAfter)
    \/ RateSleepOver(1)
    \/ \E status \in {401, 403, 500} : HttpError(1, status)
    \/ \E isThrottled \in BOOLEAN : PayloadErrors(1, isThrottled)
    \/ \E namesRateLimit \in BOOLEAN : FetchThrows(1, namesRateLimit)
    \/ RetrySleepOver(1)
    \/ NodesReceived(1)
    \/ NodeUpdated(1)
    \/ NodeNull(1)
    \/ NodeUpdateFailed(1)
    \/ NextBatch(1)

FairInvSpec == Init /\ [][OneSyncNext]_vars /\ WF_vars(OneSyncNext)

\* every awaited promise of a handler settles: a query answers or throws,
\* the fetch answers or throws, the delay timer fires
HandlerStep ==
    \E r \in Reqs :
        \/ MaxQueryOk(r)
        \/ FetchEmpty(r)
        \/ \E ids \in SUBSET (1 .. NumOrders) : FetchPage(r, ids)
        \/ OrderInserted(r)
        \/ ItemAnswered(r)
        \/ BatchDelayOver(r)
        \/ LoyaltyDone(r)

FairSpec == Spec /\ WF_vars(HandlerStep)

----------------------------------------------------------------------------
(* Properties *)

RunningSlots == {r \in Reqs : req[r].pc # "idle"}

IdsOf(tbl) == {tbl[i].order_id : i \in DOMAIN tbl}

PageIds(page) == {page[k][1] : k \in DOMAIN page}

\* C1: at most one order-sync run is in progress at any time, and while
\* isProcessing is set no step starts a run: a request arriving then changes
\* neither the store, nor the status record, nor the set of running handlers
\* unless it is the running handler that ends.
C1_SingleFlight ==
    /\ [](Cardinality(RunningSlots) <= 1)
    /\ [][orderProcessingStatus.isProcessing =>
            /\ runs' = runs
            /\ RunningSlots' \subseteq RunningSlots
            /\ (response' = "processing" /\ response # "processing" =>
                  /\ UNCHANGED <<orders, order_items, product_correlations, clientVars>>
                  /\ UNCHANGED <<orderProcessingStatus, req, seen, clientVars>>)]_vars

\* C1 witness: a start request was answered processing:true while a run is
\* in its persistence loop
C1_Witness ==
    /\ response = "processing"
    /\ orderProcessingStatus.isProcessing
    /\ \E r \in Reqs : req[r].pc = "item"

\* C2: isProcessing is set only while a handler is running (it is never still
\* set after the handler has responded), and every run that starts leads to
\* isProcessing = false.
C2_FlagCleared ==
    /\ [](orderProcessingStatus.isProcessing => RunningSlots # {})
    /\ (orderProcessingStatus.isProcessing ~> ~orderProcessingStatus.isProcessing)

\* C2 witness: after a run was aborted by an error, a later start request was
\* accepted and is running
C2_Witness ==
    /\ prev.outcome = "aborted"
    /\ \E r \in Reqs : req[r].pc = "fetch" /\ req[r].run = prev.run + 1

\* C3: after a run aborts, lastResult is populated and is the aborted run's
\* record, not an earlier run's (or null).
C3_AbortRecorded ==
    prev.outcome = "aborted" =>
        /\ ~IsNull(orderProcessingStatus.lastResult)
        /\ orderProcessingStatus.lastCompleted = Some(prev.run)

\* C4: after a run that completes successfully, with no store error in it,
\* every upstream order at or after the window start is persisted.
C4_AllMatchingPersisted ==
    (prev.outcome = "ok" /\ ~prev.fault) =>
        prev.matching \subseteq IdsOf(prev.ordersAfter)

\* the newest created_at of the orders a run fetched
SeenMax(run) == SetMax({Catalog[id].created_at : id \in PageIds(run.page)})

\* the newest timestamp among the orders a run fetched and the orders that
\* were persisted when it started
KnownMax(run) ==
    SetMax({Catalog[id].created_at : id \in PageIds(run.page)}
           \cup Range(run.lastOrderDate))

Max(a, b) == IF a >= b THEN a ELSE b

C6_GapCovered ==
    (/\ prev.outcome = "ok"
     /\ ~prev.forceFullSync
     /\ ~prev.fault
     /\ PageIds(prev.page) = prev.matching) =>
        prev.seen \subseteq IdsOf(prev.ordersAfter)

NoDuplicateOrders(tbl) ==
    \A i, j \in DOMAIN tbl : tbl[i].order_id = tbl[j].order_id => i = j

NoDuplicateItems(tbl) ==
    \A i, j \in DOMAIN tbl :
        (/\ tbl[i].order_id = tbl[j].order_id
         /\ tbl[i].variant_id = tbl[j].variant_id
         /\ tbl[i].cart_position = tbl[j].cart_position) => i = j

\* C7: a run that ingests the page the run before it ingested (both without
\* a failure) leaves orders and order_items as that run left them, without a
\* duplicate row, and reports the same processed counts.
C7_Idempotent ==
    [][(/\ prev'.run # prev.run
        /\ prev.outcome = "ok" /\ ~prev.fault
        /\ prev'.outcome = "ok" /\ ~prev'.fault
        /\ prev'.page = prev.page) =>
            /\ prev'.ordersAfter = prev.ordersAfter
            /\ prev'.itemsAfter = prev.itemsAfter
            /\ orders' = prev.ordersAfter
            /\ order_items' = prev.itemsAfter
            /\ NoDuplicateOrders(orders')
            /\ NoDuplicateItems(order_items')
            /\ prev'.ordersProcessed = prev.ordersProcessed
            /\ prev'.itemsProcessed = prev.itemsProcessed]_vars

\* C7 witness: the same page of two orders, one of them of a returning
\* customer, was ingested by two runs in a row
C7_Witness ==
    /\ prev.repeated
    /\ Len(prev.page) = 2
    /\ \E i \in DOMAIN orders : orders[i].is_returning_customer

\* C8: orders holds one row per order id, and the row's totals and status
\* strings are those of the most recent upsert of that id.
C8_LastWriteWins ==
    /\ NoDuplicateOrders(orders)
    /\ \A i \in DOMAIN orders :
          LET last == lastUpsert[orders[i].order_id]
          IN  /\ ~IsNull(last)
              /\ orders[i].total_price = last[1].total_price
              /\ orders[i].subtotal_price = last[1].subtotal_price
              /\ orders[i].total_tax = last[1].total_tax
              /\ orders[i].financial_status = last[1].financial_status
              /\ orders[i].fulfillment_status = last[1].fulfillment_status

\* C9: after a run that succeeded without a failure, every line item of
\* every order of its page is one row of order_items, found by (order id,
\* variant id, cart position), with the quantity and price of the item.
C9_LineItemsKeyed ==
    (prev.outcome = "ok" /\ ~prev.fault) =>
        \A k \in DOMAIN prev.page :
            LET order == UpstreamOrder(prev.page[k][1], prev.page[k][2])
            IN  \A p \in 0 .. Len(order.line_items) - 1 :
                    Cardinality({i \in DOMAIN prev.itemsAfter :
                        prev.itemsAfter[i] =
                            ItemRow(order.id, p, order.line_items[p + 1])}) = 1

\* is_returning_customer of every row tells whether the row's customer is
\* not null and has more than one row
LoyaltyExact(tbl) ==
    \A i \in DOMAIN tbl :
        tbl[i].is_returning_customer <=>
            /\ ~IsNull(tbl[i].customer_id)
            /\ \E j \in DOMAIN tbl : j # i /\ tbl[j].customer_id = tbl[i].customer_id

\* C10: after a run completes, is_returning_customer of every persisted
\* order is true exactly when its customer id is not null and occurs on
\* more than one persisted order.
C10_LoyaltyExact ==
    prev.outcome \in {"ok", "uptodate"} => LoyaltyExact(prev.ordersAfter)

\* C10 witness: the two orders of customer 1 were ingested by different
\* runs and both are returning, the guest order is not
C10_Witness ==
    /\ prev.outcome = "ok"
    /\ PageIds(prev.page) = {2, 3}
    /\ \E i, j, k \in DOMAIN prev.ordersAfter :
          /\ prev.ordersAfter[i].order_id = 1
          /\ prev.ordersAfter[i].is_returning_customer
          /\ prev.ordersAfter[j].order_id = 3
          /\ prev.ordersAfter[j].is_returning_customer
          /\ prev.ordersAfter[k].order_id = 2
          /\ ~prev.ordersAfter[k].is_returning_customer

\* C11: the loyalty update applied to an orders table it was just applied to
\* changes no is_returning_customer value; in particular, as long as orders
\* is as the last completed run left it, applying the update changes nothing.
C11_LoyaltyIdempotent ==
    /\ MarkReturning(MarkReturning(orders)) = MarkReturning(orders)
    /\ (prev.outcome = "ok" /\ orders = prev.ordersAfter =>
            MarkReturning(orders) = orders)

\* C11 witness: the loyalty update of the last run has marked the two orders
\* of customer 1, next to a guest order, and the table is unchanged since
C11_Witness ==
    /\ prev.outcome = "ok"
    /\ orders = prev.ordersAfter
    /\ Len(orders) = 3
    /\ Cardinality({i \in DOMAIN orders : orders[i].is_returning_customer}) = 2

\* the orders that hold variant a, and those that hold both a and b
OrdersContaining(items, a) ==
    {items[i].order_id : i \in {k \in DOMAIN items : items[k].variant_id = a}}

OrdersWithBoth(items, a, b) ==
    OrdersContaining(items, a) \cap OrdersContaining(items, b)

VariantsOf(items) == {items[i].variant_id : i \in DOMAIN items}

\* a rebuild has ended normally and no other rebuild overlapped it
RebuildDone == corrDone.n > 0 /\ corrDone.ok /\ ~corrDone.overlap

\* C12: once a rebuild has completed, there is an edge (A,B) exactly for the
\* pairs A < B that occur together in at least two distinct orders, and its
\* co_purchase_count is the number of distinct orders holding both.
C12_EdgesCountOrders ==
    RebuildDone =>
        {<<e.variant_a_id, e.variant_b_id, e.co_purchase_count>> : e \in corrDone.edges}
          = {<<p[1], p[2], Cardinality(OrdersWithBoth(order_items, p[1], p[2]))>> :
                p \in {q \in VariantsOf(order_items) \X VariantsOf(order_items) :
                          /\ VariantLess(q[1], q[2])
                          /\ Cardinality(OrdersWithBoth(order_items, q[1], q[2])) >= 2}}

\* C13: once a rebuild has completed, the correlation_score of every edge is
\* its co_purchase_count divided by the number of distinct orders holding
\* the edge's first variant (2/3 for the orders {X,Y}, {X,Y}, {X}).
C13_ScoreIsShare ==
    RebuildDone =>
        \A e \in corrDone.edges :
            e.correlation_score[1] * Cardinality(OrdersContaining(order_items, e.variant_a_id))
              = e.co_purchase_count * e.correlation_score[2]

\* C14: in every state of product_correlations, variant_a_id of every row is
\* strictly less than its variant_b_id (as the TEXT columns compare), and no
\* two rows hold the same unordered pair.
C14_OrderedPairs ==
    /\ \A i \in DOMAIN product_correlations :
          /\ VariantLess(product_correlations[i].variant_a_id,
                         product_correlations[i].variant_b_id)
          /\ product_correlations[i].variant_a_id # product_correlations[i].variant_b_id
    /\ \A i, j \in DOMAIN product_correlations :
          {product_correlations[i].variant_a_id, product_correlations[i].variant_b_id}
            = {product_correlations[j].variant_a_id, product_correlations[j].variant_b_id}
          => i = j

\* C14 witness: two rebuilds that overlapped have both ended and the table
\* holds two edges
C14_Witness ==
    /\ corrDone.n = 2
    /\ corrDone.overlap
    /\ Len(product_correlations) = 2

\* C15: a rebuild that follows a rebuild, both ending normally and
\* overlapping no other, with order_items unchanged in between, leaves the
\* edges (pair, co_purchase_count, correlation_score) the first one left.
C15_RebuildRepeatable ==
    [][(/\ corrDone'.n # corrDone.n
        /\ corrDone'.repeated
        /\ order_items' = order_items) =>
            /\ corrDone'.edges = corrDone.edges
            /\ Range(product_correlations') = corrDone.edges]_vars

\* C15 witness: the second of two rebuilds in sequence has ended, on line
\* items that yield two edges
C15_Witness ==
    /\ corrDone.repeated
    /\ Cardinality(corrDone.edges) = 2

\* C16: at most one calculateCorrelations() call is between its first and
\* its last statement at any time.
C16_OneRebuildInFlight == Cardinality(InFlight) <= 1

\* the edges a rebuild of the line items in the store writes
TargetEdges == {CorrelationRow(row) : row \in CorrelationRows(order_items)}

\* C17: a read that falls into a rebuild (the only one in flight) sees the
\* edges as they were before the rebuild or as the rebuild leaves them,
\* when both are non-empty: never no edge, never a part of them.
C17_AtomicRebuild ==
    (/\ observed.read
     /\ observed.single
     /\ observed.before # {}
     /\ TargetEdges # {}) =>
        observed.edges \in {observed.before, TargetEdges}

\* the updateInventoryLevels() calls that have started and not returned
SyncsRunning == {s \in InvSlots : sync[s].pc # "idle"}

\* C18: at most one inventory sync run is in progress at any time.
C18_OneInventorySync == Cardinality(SyncsRunning) <= 1

\* C19: a batch answered 429 is slept on and retried while fewer than
\* maxRetries (3) retries were made for it; the retry counter and the retries
\* never exceed 3; a batch answered 429 at the ceiling returns success:false,
\* updatedInBatch 0 and errorCount = the batch size, and only then does a
\* batch fail for rate limiting.
C19_RateLimitCeiling ==
    /\ [](\A s \in InvSlots :
            /\ sync[s].retryCount <= maxRetries
            /\ sync[s].log.requests <= maxRetries + 1
            /\ (sync[s].last.cause = "rateLimit" =>
                   /\ sync[s].last.retryCount = maxRetries
                   /\ ~sync[s].last.success
                   /\ sync[s].last.updatedInBatch = 0
                   /\ sync[s].last.errorCount = sync[s].last.size))
    /\ [][\A s \in InvSlots :
            (sync[s].pc = "rateSleep" /\ sync'[s] # sync[s]) =>
                IF sync[s].retryCount < maxRetries
                THEN /\ sync'[s].pc = "fetch"
                     /\ sync'[s].retryCount = sync[s].retryCount + 1
                     /\ sync'[s].last = sync[s].last
                ELSE /\ sync'[s].pc \in {"batchDelay", "idle"}
                     /\ sync'[s].last.cause = "rateLimit"]_vars

\* C19 witness: a batch of two variants has failed after its first request
\* and its three retries were all answered 429
C19_Witness ==
    \E s \in InvSlots :
        /\ sync[s].last.cause = "rateLimit"
        /\ sync[s].last.log.requests = 4
        /\ sync[s].last.log.rateLimited = 4
        /\ sync[s].last.errorCount = 2

\* C20: a batch fails for a non-rate-limit HTTP error only on the second
\* such answer, that is after the first one was retried once, whatever else
\* was answered for the batch before.
C20_HttpErrorRetriedOnce ==
    \A s \in InvSlots :
        /\ sync[s].log.httpErrors <= 2
        /\ (sync[s].last.cause = "http" => sync[s].last.log.httpErrors = 2)

\* C21: the step that aborts an order-sync run changes no table: the order
\* and line item rows written before the abort are in the store afterwards
\* exactly as they were, and the orders table holds at least as many rows of
\* the run's page as the run had persisted.
C21_NoRollback ==
    [][(prev'.run # prev.run /\ prev'.outcome = "aborted") =>
          /\ orders' = orders
          /\ order_items' = order_items
          /\ product_correlations' = product_correlations
          /\ prev'.ordersAfter = orders
          /\ Cardinality(IdsOf(orders') \cap PageIds(prev'.page))
                >= prev'.ordersProcessed]_vars

\* C21 witness: a run was aborted by the loyalty update after it had
\* persisted two orders, and both rows are in the store
C21_Witness ==
    /\ prev.outcome = "aborted"
    /\ prev.ordersProcessed = 2
    /\ PageIds(prev.page) \subseteq IdsOf(orders)
    /\ response = "500"

C23_RebuildAfterPersist ==
    \A r \in Reqs :
        /\ (req[r].pc \in {"fetch", "order", "item", "delay"} => InFlight = {})
        /\ (req[r].pc = "loyalty" => req[r].i = Len(req[r].orders))

\* C24: the step of the handler that calls calculateCorrelations() is the
\* step that completes the run (isProcessing cleared, lastResult and
\* lastCompleted recorded, response sent), whatever becomes of the rebuild;
\* and no step of a rebuild, its failure included, changes the response, the
\* status record or the record of the completed run.
C24_CompletionIgnoresRebuild ==
    /\ [][(InFlight' \ InFlight # {}) =>
             /\ ~orderProcessingStatus'.isProcessing
             /\ orderProcessingStatus'.lastCompleted = Some(prev'.run)
             /\ orderProcessingStatus'.lastResult # Null
             /\ response' = "ok"
             /\ prev'.outcome = "ok"
             /\ prev'.run # prev.run]_vars
    /\ [][(corr' # corr /\ req' = req) =>
             UNCHANGED <<response, orderProcessingStatus, prev, clientVars>>]_vars

\* C24 witness: the rebuild started by run 1 has failed, run 2 has completed
\* with success and the rebuild it started is still in flight
C24_Witness ==
    /\ corrDone.n = 1 /\ ~corrDone.ok
    /\ InFlight # {}
    /\ prev.run = 2 /\ prev.outcome = "ok"
    /\ response = "ok"
    /\ ~orderProcessingStatus.isProcessing
    /\ orderProcessingStatus.lastCompleted = Some(2)

\* the edges (first variant, second variant, count) the line items define:
\* the pairs A < B that occur together in at least two distinct orders, with
\* the number of these orders
EdgesOf(items) ==
    {<<p[1], p[2], Cardinality(OrdersWithBoth(items, p[1], p[2]))>> :
        p \in {q \in VariantsOf(items) \X VariantsOf(items) :
                  /\ VariantLess(q[1], q[2])
                  /\ Cardinality(OrdersWithBoth(items, q[1], q[2])) >= 2}}

\* C25: when at least one rebuild was started and every rebuild that was
\* started has ended, the edges in product_correlations (pair and count) are
\* the edges the line items in the store define.
C25_EdgesCurrent ==
    (corrDone.n > 0 /\ InFlight = {}) =>
        {<<e.variant_a_id, e.variant_b_id, e.co_purchase_count>> :
            e \in Range(product_correlations)} = EdgesOf(order_items)

\* C26: a rebuild that overlapped no other and failed after its DELETE
\* (in the pair query or in an insert) leaves in product_correlations the
\* edges that were there when it was called.
C26_FailureKeepsSnapshot ==
    (/\ corrDone.n > 0
     /\ ~corrDone.ok
     /\ corrDone.cleared
     /\ ~corrDone.overlap) =>
        corrDone.edges = corrDone.before

\* C27: the window start computed when SELECT MAX answers is the historical
\* floor if forceFullSync was requested or the orders table is empty, and
\* otherwise the greatest order_date in the orders table minus 5 minutes.
C27_WindowStart ==
    [][\A r \in Reqs :
          (req[r].pc = "queryMax" /\ req'[r].pc = "fetch") =>
             req'[r].sinceDate =
                Some(IF req[r].forceFullSync \/ orders = << >>
                     THEN SinceFloor
                     ELSE SetMax({orders[i].order_date : i \in DOMAIN orders}) - 5)]_vars

\* C27 witness: an incremental run over a store whose newest order is of
\* minute 12 is fetching with window start 7
C27_Witness ==
    \E r \in Reqs :
        /\ req[r].pc = "fetch"
        /\ ~req[r].forceFullSync
        /\ SetMax({orders[i].order_date : i \in DOMAIN orders} \cup {0}) = 12
        /\ req[r].sinceDate = Some(7)

\* C28: the key under which the handler sends the line item it is at is the
\* synthesized key exactly when the item has no upstream variant id; the
\* synthesized key is made of the order id and the position, and an item that
\* has an upstream variant id is sent under that id.
C28_SynthesizedKey ==
    \A r \in Reqs :
        req[r].pc = "item" =>
            LET order == CurrentOrder(req[r])
                item == order.line_items[req[r].position + 1]
                key == VariantKey(order.id, req[r].position, item)
            IN  /\ key[1] = "custom" <=> IsNull(item.variant_id)
                /\ key[1] = "custom" => key = <<"custom", order.id, req[r].position>>
                /\ ~IsNull(item.variant_id) => key = <<"v", item.variant_id[1]>>

\* C29: a batch that was answered 401 or 403 is requested no more: the
\* request that got that answer is the last request issued for the batch.
C29_AuthFailureFatal ==
    \A s \in InvSlots :
        /\ (sync[s].log.authAt > 0 => sync[s].log.requests = sync[s].log.authAt)
        /\ (sync[s].last.log.authAt > 0 =>
               sync[s].last.log.requests = sync[s].last.log.authAt)

\* 2000 ms * 2^retryCount as the claim lists it
BackoffMs(retryCount) ==
    CASE retryCount = 0 -> 2000
      [] retryCount = 1 -> 4000
      [] retryCount = 2 -> 8000
      [] retryCount = 3 -> 16000

\* the milliseconds a Retry-After header of whole seconds ("7", "2.0") asks
\* for: a thousand times the number written before the decimal point
HeaderMs(text) ==
    LET dots == {i \in DOMAIN text : text[i] = "."}
        n == IF dots = {} THEN Len(text)
             ELSE (CHOOSE i \in dots : \A j \in dots : i <= j) - 1
    IN  1000 * DigitsValue(SubSeq(text, 1, n))

C31_InventoryWritten ==
    [][\A s \in InvSlots :
          (sync[s].pc = "update" /\ sync'[s] # sync[s] /\ faults' = faults) =>
             LET v == Batch(sync[s])[sync[s].j + 1]
             IN  /\ products'[v] =
                       CASE v = 1 -> [inventory_quantity |-> 5, distributor |-> Some("D")]
                         [] v = 2 -> [inventory_quantity |-> -2, distributor |-> Null]
                         [] v = 3 -> [inventory_quantity |-> 0, distributor |-> Some("E")]
                         [] OTHER -> [inventory_quantity |-> 0, distributor |-> Null]
                 /\ \A w \in DOMAIN products \ {v} : products'[w] = products[w]]_vars

\* C31 witness: a sync has returned after successful batches; variant 2 holds
\* the negative upstream quantity and no distributor, variant 3 the quantity 0
C31_Witness ==
    /\ \E s \in InvSlots : sync[s].pc = "idle" /\ sync[s].last.success
    /\ products[2] = [inventory_quantity |-> -2, distributor |-> Null]
    /\ products[3] = [inventory_quantity |-> 0, distributor |-> Some("E")]
    /\ products[1] = [inventory_quantity |-> 5, distributor |-> Some("D")]

NextMarker(link) ==
    /\ link # Null
    /\ "next" \in link[1].rels
    /\ link[1].cursor # Null
    /\ link[1].closed

C35_BatchBounded ==
    /\ [](\A s \in InvSlots :
             /\ sync[s].log.requests <= 4
             /\ sync[s].last.log.requests <= 4
             /\ sync[s].retryCount <= 3
             /\ (sync[s].pc \in {"fetch", "rateSleep", "retrySleep", "update"} =>
                    sync[s].retryCount = sync[s].log.requests - 1))
    /\ \A s \in InvSlots :
          (sync[s].pc = "fetch") ~> (sync[s].pc \in {"batchDelay", "idle"})

\* C35 witness: a batch has returned success on its fourth request, after an
\* HTTP 500, a 429 and a throttled payload
C35_Witness ==
    \E s \in InvSlots :
        /\ sync[s].last.success
        /\ sync[s].last.log.requests = 4
        /\ sync[s].last.log.httpErrors = 1
        /\ sync[s].last.log.rateLimited = 1
        /\ sync[s].last.retryCount = 3

\* the positions of a sync at which a batch is being processed
InBatch == {"fetch", "rateSleep", "retrySleep", "update"}

\* C36: the batch loop starts at index 0 and only ever moves on by batchSize,
\* after the batch at the current index has returned; whatever that batch
\* returned, the ids of all earlier batches are counted once in
\* updatedCount + errorCount; the run ends only after the last batch, and the
\* object it returns has updated + errors = total, the number of variant ids.
C36_BatchesInOrder ==
    /\ [](\A s \in InvSlots :
            LET h == sync[s]
            IN  /\ h.pc \in InBatch =>
                      /\ h.i < Len(h.variantIds)
                      /\ h.i % batchSize = 0
                      /\ Len(Batch(h)) <= batchSize
                      /\ h.updatedCount + h.errorCount = h.i
                /\ h.pc = "batchDelay" =>
                      /\ h.i + batchSize < Len(h.variantIds)
                      /\ h.updatedCount + h.errorCount = h.i + batchSize
                /\ ~IsNull(h.result) =>
                      /\ h.result[1].updated + h.result[1].errors = h.result[1].total
                      /\ h.result[1].total = NumVariants)
    /\ [][\A s \in InvSlots :
            LET h == sync[s]
                h1 == sync'[s]
            IN  /\ (h.pc = "select" /\ h1.pc \notin {"select", "idle"}) =>
                      (h1.pc = "fetch" /\ h1.i = 0)
                /\ (h.pc \in InBatch /\ h1.pc \in InBatch \cup {"batchDelay"}) =>
                      h1.i = h.i
                /\ h.pc = "batchDelay" =>
                      (h1 = h \/ (h1.pc = "fetch" /\ h1.i = h.i + batchSize))
                /\ (h.pc \in InBatch /\ h1.pc \notin InBatch) =>
                      IF h.i + batchSize < Len(h.variantIds)
                      THEN h1.pc = "batchDelay"
                      ELSE h1.pc = "idle" /\ ~IsNull(h1.result)]_vars

\* C36 witness: a run has returned after its first batch failed and its
\* second batch was written
C36_Witness ==
    \E s \in InvSlots :
        /\ ~IsNull(sync[s].result)
        /\ sync[s].result[1].errors = batchSize
        /\ sync[s].result[1].updated = NumVariants - batchSize
        /\ sync[s].last.success

\* C37: in every state 0 <= progress.processed <= progress.total; the step
\* that starts a run sets progress to {processed: 0, total: 0}; the step
\* that completes a run (normally or with no new orders) leaves processed
\* equal to the ordersProcessed of lastResult and of the run's response.
C37_ProgressBounded ==
    /\ [](/\ 0 <= orderProcessingStatus.progress.processed
          /\ orderProcessingStatus.progress.processed
                <= orderProcessingStatus.progress.total)
    /\ [][(~orderProcessingStatus.isProcessing /\ orderProcessingStatus'.isProcessing) =>
             orderProcessingStatus'.progress = [processed |-> 0, total |-> 0]]_vars
    /\ [][(orderProcessingStatus.isProcessing /\ ~orderProcessingStatus'.isProcessing
           /\ response' \in {"ok", "uptodate"}) =>
             /\ ~IsNull(orderProcessingStatus'.lastResult)
             /\ orderProcessingStatus'.progress.processed
                   = orderProcessingStatus'.lastResult[1].ordersProcessed
             /\ orderProcessingStatus'.progress.processed = prev'.ordersProcessed]_vars

\* C37 witness: a second run has completed with one of its two orders
\* written and the other one failed
C37_Witness ==
    /\ ~orderProcessingStatus.isProcessing
    /\ prev.run = 2
    /\ prev.outcome = "ok"
    /\ orderProcessingStatus.progress = [processed |-> 1, total |-> 2]
    /\ orderProcessingStatus.lastResult[1].ordersProcessed = 1

ListOf(list) == IF IsNull(list) THEN << >> ELSE list[1]

\* C39: when a load has returned and a save of the same planogram id has
\* returned before it, with no save begun or failed in between, the load has
\* found the planogram and its fixtures and sections are those the save was
\* called with.
C39_LoadYieldsLastSave ==
    (~IsNull(planogram.loaded) /\ ~IsNull(planogram.saved)) =>
        /\ ~IsNull(planogram.loaded[1])
        /\ planogram.loaded[1][1].fixtures = ListOf(planogram.saved[1].fixtures)
        /\ planogram.loaded[1][1].sections = ListOf(planogram.saved[1].sections)

====
